---- MODULE Spec2Model ----
(***************************************************************************)
(* FinTrackLib: the income-tax slab engine (fintracklib/tax.py), the       *)
(* Indian-rupee formatter / parser (fintracklib/utils.py) and the          *)
(* in-memory managers built on fintracklib/models.py.                      *)
(*                                                                         *)
(* Number representation.  Incomes, deductions and taxable income are      *)
(* whole rupees.  Every tax amount (tax_before_rebate, rebate_87a,         *)
(* surcharge, marginal_relief, final_tax, savings) is an integer number of *)
(* half-paise (1/200 rupee): slab tax and the 10/15/25 % surcharge of a    *)
(* whole-rupee income are exact in that unit.  The one inexact step of the *)
(* source, tax_before_rebate * (threshold / income), is rounded down to    *)
(* the half-paise.  effective_rate is in 1/100 of a percent, rounded down. *)
(***************************************************************************)
EXTENDS Integers, Sequences, FiniteSets, TLC

VARIABLES
    call,       \* the last TaxCalculator call: its name and its arguments
    result,     \* what that call returned, or the error it raised
    amount,     \* the amount last handed to format_inr
    text,       \* the string format_inr returned, or the one the caller passes
    parsed,     \* what parse_inr made of text
    valid,      \* what validate_inr_format said of text
    date,       \* the date handed to get_fiscal_year
    fy,         \* the label get_fiscal_year returned
    manager,    \* a RecurringExpenseManager: recurring_expenses, _next_id
    logger,     \* an ExpenseLogger: transactions, _next_id
    goal_manager,   \* a SavingsGoalManager: goals, _next_id
    categorizer,    \* a Categorizer: valid_categories
    transaction,    \* the Transaction handed to the Categorizer
    last,       \* the last call on one of these objects and how it ended
    issued,     \* the ids given to created entries, oldest first
    dup_used,   \* some log_expense call so far passed allow_duplicates=True
    ops,        \* the number of calls made on the object so far
    given,      \* the list the caller passed to TransactionFilter(...)
    filter,     \* a TransactionFilter: transactions, _filtered
    applied,    \* the filter calls so far that applied a predicate
    rearranged  \* sort_by, limit or reset has been called on the filter

taxVars == <<call, result>>
inrVars == <<amount, text, parsed, valid>>
fyVars == <<date, fy>>
filterVars == <<given, filter, applied, rearranged>>
objVars == <<manager, logger, goal_manager, categorizer, transaction,
             last, issued, dup_used, ops, filterVars>>
vars == <<taxVars, inrVars, fyVars, objVars>>

----------------------------------------------------------------------------
(* Bounds of the model *)

Window == 1         \* incomes within Window rupees of every boundary
GridN == 21         \* grid incomes 0, GridStep, ..., GridN * GridStep
MaxPow == 8         \* amounts 10^k - 1, 10^k, 10^k + 1 for k up to MaxPow
MaxLen == 4         \* every string of at most MaxLen characters of Alphabet

----------------------------------------------------------------------------
(* Arithmetic helpers *)

UnitsPerRupee == 200

Min(a, b) == IF a <= b THEN a ELSE b
Max(a, b) == IF a >= b THEN a ELSE b

Rupees(r) == r * UnitsPerRupee

\* <<q, r>> with a * b = q * c + r and 0 <= r < c, without forming a * b
RECURSIVE MulDivRem(_, _, _)
MulDivRem(a, b, c) ==
    IF b = 0 THEN <<0, 0>>
    ELSE LET h  == MulDivRem(a, b \div 2, c)
             q2 == 2 * h[1] + (2 * h[2]) \div c
             r2 == (2 * h[2]) % c
             qa == IF b % 2 = 1 THEN a \div c ELSE 0
             ra == IF b % 2 = 1 THEN a % c ELSE 0
         IN  <<q2 + qa + (r2 + ra) \div c, (r2 + ra) % c>>

\* a * (b / c), rounded down
MulDiv(a, b, c) == MulDivRem(a, b, c)[1]

\* x * p / 100, rounded down, without forming x * p
PercentOf(x, p) == (x \div 100) * p + ((x % 100) * p) \div 100

----------------------------------------------------------------------------
(* utils.py: amounts and strings *)

\* A float amount is a sign, a whole number of rupees and a fraction in
\* thousandths of a rupee; a string is a sequence of characters.

Amt(neg, whole, frac) == [neg |-> neg, whole |-> whole, frac |-> frac]
Zero == Amt(FALSE, 0, 0)

RUPEE == "₹"
Digits == <<"0", "1", "2", "3", "4", "5", "6", "7", "8", "9">>
DigitSet == {Digits[k] : k \in 1..10}
DigitChar(d) == Digits[d + 1]
DigitValue(ch) == CHOOSE d \in 0..9 : Digits[d + 1] = ch

\* str(n) for an integer n >= 0
RECURSIVE IntToStr(_)
IntToStr(n) ==
    IF n < 10 THEN <<DigitChar(n)>>
    ELSE Append(IntToStr(n \div 10), DigitChar(n % 10))

\* the integer a digit string denotes
RECURSIVE StrToInt(_)
StrToInt(s) ==
    IF s = <<>> THEN 0
    ELSE 10 * StrToInt(SubSeq(s, 1, Len(s) - 1)) + DigitValue(s[Len(s)])

\* s[-n:] and s[:-n]
LastN(s, n) == SubSeq(s, Len(s) - n + 1, Len(s))
DropLastN(s, n) == SubSeq(s, 1, Len(s) - n)

\* s.replace(ch, '')
RECURSIVE Remove(_, _)
Remove(s, ch) ==
    IF s = <<>> THEN <<>>
    ELSE IF s[1] = ch THEN Remove(Tail(s), ch)
    ELSE <<s[1]>> \o Remove(Tail(s), ch)

\* s.strip(), the whitespace of the model being the space
RECURSIVE Strip(_)
Strip(s) ==
    IF s = <<>> THEN <<>>
    ELSE IF s[1] = " " THEN Strip(Tail(s))
    ELSE IF s[Len(s)] = " " THEN Strip(DropLastN(s, 1))
    ELSE s

\* ','.join(parts)
RECURSIVE Join(_)
Join(parts) ==
    IF Len(parts) = 1 THEN parts[1]
    ELSE parts[1] \o <<",">> \o Join(Tail(parts))

\* reversed(parts)
RECURSIVE Reverse(_)
Reverse(parts) ==
    IF parts = <<>> THEN <<>>
    ELSE Append(Reverse(Tail(parts)), parts[1])

----------------------------------------------------------------------------
(* utils.py: format_inr *)

\* f"{frac:.2f}" for a fraction 0 <= frac < 1: hundredths to the nearest.
\* Which way the source rounds an exact half of a hundredth depends on the
\* binary value of the float; the amounts of the model have no such tie.
Format2f(frac) ==
    LET down == frac \div 10
        rest == frac % 10
        cents == IF rest > 5 \/ (rest = 5 /\ down % 2 = 1) THEN down + 1 ELSE down
    IN  <<DigitChar(cents \div 100), ".",
          DigitChar((cents \div 10) % 10), DigitChar(cents % 10)>>

\* the while loop of format_inr: groups of two digits from the right
RECURSIVE GroupLoop_Three(_, _)
GroupLoop_Three(num_str, result_parts) ==
    IF num_str = <<>> THEN result_parts
    ELSE IF Len(num_str) >= 3
         THEN GroupLoop_Three(DropLastN(num_str, 3),
                              Append(result_parts, LastN(num_str, 3)))
    ELSE Append(result_parts, num_str)
RECURSIVE GroupLoop(_, _)
GroupLoop(num_str, result_parts) ==
    IF num_str = <<>> THEN result_parts
    ELSE IF Len(num_str) >= 2
         THEN GroupLoop(DropLastN(num_str, 2), Append(result_parts, LastN(num_str, 2)))
    ELSE Append(result_parts, num_str)

format_inr(a) ==
    LET is_negative == a.neg
        integer_part == a.whole
        decimal_part == SubSeq(Format2f(a.frac), 3, 4)
        num_str == IntToStr(integer_part)
        formatted == Join(Reverse(GroupLoop(DropLastN(num_str, 3),
                                            <<LastN(num_str, 3)>>)))
        res == IF integer_part < 1000
               THEN <<RUPEE>> \o num_str \o <<".">> \o decimal_part
               ELSE <<RUPEE>> \o formatted \o <<".">> \o decimal_part
    IN  IF is_negative THEN <<"-">> \o res ELSE res

----------------------------------------------------------------------------
(* utils.py: parse_inr *)

\* the two cleaning statements of parse_inr
Cleaned_KeepCommas(inr_string) ==
    Remove(Remove(Strip(inr_string), RUPEE), " ")
Cleaned_KeepSpaces(inr_string) ==
    Remove(Remove(Strip(inr_string), RUPEE), ",")
Cleaned(inr_string) ==
    Remove(Remove(Remove(Strip(inr_string), RUPEE), " "), ",")

IsDigits(s) == \A k \in 1..Len(s) : s[k] \in DigitSet
DotAt(s) == IF \E k \in 1..Len(s) : s[k] = "."
            THEN CHOOSE k \in 1..Len(s) : s[k] = "." /\ \A j \in 1..(k - 1) : s[j] # "."
            ELSE Len(s) + 1

\* float(s) for the decimal literals of the model: an optional sign, digits,
\* an optional point and digits, at least one digit in all; the value keeps
\* three fraction digits.  Anything else is a ValueError.
ParseFloat(s) ==
    LET signed == s # <<>> /\ s[1] \in {"-", "+"}
        body == IF signed THEN Tail(s) ELSE s
        dot == DotAt(body)
        int_digits == SubSeq(body, 1, dot - 1)
        frac_digits == SubSeq(body, dot + 1, Len(body))
        well_formed == /\ IsDigits(int_digits)
                       /\ IsDigits(frac_digits)
                       /\ Len(int_digits) + Len(frac_digits) > 0
        frac3 == SubSeq(frac_digits \o <<"0", "0", "0">>, 1, 3)
        whole == StrToInt(int_digits)
        frac == StrToInt(frac3)
    IN  IF well_formed
        THEN [ok |-> TRUE,
              value |-> Amt(signed /\ s[1] = "-" /\ (whole # 0 \/ frac # 0), whole, frac)]
        ELSE [ok |-> FALSE, error |-> "Invalid INR format"]

\* values that are not strings: None, the integer 0, the integer 100
NonStrings == {<<"<None>">>, <<"<int 0>">>, <<"<int 100>">>}
IsStr(v) == v \notin NonStrings

parse_inr(inr_string) ==
    IF inr_string = <<>> \/ ~IsStr(inr_string)
    THEN [ok |-> FALSE, error |-> "Invalid INR string: must be a non-empty string"]
    ELSE ParseFloat(Cleaned(inr_string))

----------------------------------------------------------------------------
(* utils.py: validate_inr_format *)

\* \d{1,2}(,\d{2})*  read from the right
RECURSIVE MatchLeadingGroups(_)
MatchLeadingGroups(s) ==
    IF Len(s) <= 2 THEN Len(s) >= 1 /\ IsDigits(s)
    ELSE /\ s[Len(s) - 2] = ","
         /\ IsDigits(LastN(s, 2))
         /\ MatchLeadingGroups(DropLastN(s, 3))

\* \d{1,2}(,\d{2})*,\d{3}
MatchIndianInt(s) ==
    /\ Len(s) >= 5
    /\ s[Len(s) - 3] = ","
    /\ IsDigits(LastN(s, 3))
    /\ MatchLeadingGroups(DropLastN(s, 4))

\* \d{1,3}
MatchPlainInt(s) == Len(s) \in 1..3 /\ IsDigits(s)

\* re.match of  ^-?\d{1,2}(,\d{2})*,\d{3}(\.\d{1,2})?$|^-?\d{1,3}(\.\d{1,2})?$
MatchPattern(amount_part) ==
    LET body == IF amount_part # <<>> /\ amount_part[1] = "-"
                THEN Tail(amount_part) ELSE amount_part
        dot == DotAt(body)
        int_part == SubSeq(body, 1, dot - 1)
        decimals == SubSeq(body, dot + 1, Len(body))
        decimals_ok == dot > Len(body) \/ (Len(decimals) \in 1..2 /\ IsDigits(decimals))
    IN  decimals_ok /\ (MatchIndianInt(int_part) \/ MatchPlainInt(int_part))

\* inr_string[1:].strip()
AmountPart_Unstripped(stripped) == Tail(stripped)
AmountPart(stripped) == Strip(Tail(stripped))

validate_inr_format(inr_string) ==
    IF inr_string = <<>> \/ ~IsStr(inr_string) THEN FALSE
    ELSE LET stripped == Strip(inr_string)
         IN  IF stripped = <<>> \/ stripped[1] # RUPEE THEN FALSE
             ELSE MatchPattern(AmountPart(stripped))

----------------------------------------------------------------------------
(* utils.py: the inputs the model draws and the calls *)

RECURSIVE Pow10(_)
Pow10(k) == IF k = 0 THEN 1 ELSE 10 * Pow10(k - 1)

Wholes ==
    {Pow10(k) + d : k \in 0..MaxPow, d \in {0 - 1, 0, 1}}
        \cup {125000, 1234567, 12345678}
\* fractions in thousandths; none ends in 5 (see Format2f)
Fracs == {0, 10, 50, 560, 990, 4, 126, 996, 999}
Amounts == {Amt(n, w, f) : n \in BOOLEAN, w \in Wholes, f \in Fracs}
               \ {Amt(TRUE, 0, 0)}

NoText == <<"<none>">>
NotParsed == [ok |-> FALSE, error |-> "not returned"]
NoAmount == [none |-> TRUE]

\* the strings a caller passes to parse_inr and validate_inr_format
Alphabet == {RUPEE, "7", "0", ",", ".", "-", " ", "x"}
ShortStrings == UNION {[1..n -> Alphabet] : n \in 0..MaxLen}
LongStrings ==
    { <<RUPEE, "1", "0", ",", "0", "0", ",", "0", "0", "0">>,
      <<RUPEE, "1", ",", "0", "0", "0", ",", "0", "0", "0">>,
      <<"1", "0", "0", "0", "0", "0", "0">>,
      <<" ", " ", RUPEE, "1", ",", "0", "0", ",", "0", "0", "0", ".", "0", "0", " ", " ">>,
      <<RUPEE, " ", "5", "0", ",", "0", "0", "0">>,
      <<RUPEE, "-", "1", "0", "0", ".", "0", "0">>,
      <<RUPEE, "1", "2", ",", "3", "4", ",", "5", "6", "7", ".", "8", "9">>,
      <<RUPEE, "1", "2", "3", "4">>,
      <<RUPEE, "1", "2", "3", ",", "4", "5", "6">>,
      <<RUPEE, "1", ",", "0", "0", ",", "0", "0", "0", ".", "1", "2", "3">>,
      <<"i", "n", "v", "a", "l", "i", "d">>,
      <<RUPEE, "a", "b", "c">>,
      <<"$", "1", "0", "0">> }
Literals == ShortStrings \cup LongStrings \cup NonStrings

\* text = format_inr(amount)
FormatInr ==
    /\ text = NoText
    /\ text' = format_inr(amount)
    /\ UNCHANGED <<amount, parsed, valid, taxVars, fyVars, objVars>>

\* parsed = parse_inr(text), or the ValueError it raises
ParseInr ==
    /\ text # NoText
    /\ parsed = NotParsed
    /\ parsed' = parse_inr(text)
    /\ UNCHANGED <<amount, text, valid, taxVars, fyVars, objVars>>

\* valid = <<validate_inr_format(text)>>
ValidateInr ==
    /\ text # NoText
    /\ valid = <<>>
    /\ valid' = <<validate_inr_format(text)>>
    /\ UNCHANGED <<amount, text, parsed, taxVars, fyVars, objVars>>

NextInr == FormatInr \/ ParseInr \/ ValidateInr

NoDate == [none |-> TRUE]
NoObject == [none |-> TRUE]
NoOp == [op |-> "none"]

FyIdle ==
    /\ date = NoDate
    /\ fy = NoText

FilterIdle ==
    /\ given = <<>>
    /\ filter = NoObject
    /\ applied = {}
    /\ rearranged = FALSE

ObjIdle ==
    /\ FilterIdle
    /\ manager = NoObject
    /\ logger = NoObject
    /\ goal_manager = NoObject
    /\ categorizer = NoObject
    /\ transaction = NoObject
    /\ last = NoOp
    /\ issued = <<>>
    /\ dup_used = FALSE
    /\ ops = 0

InrIdle ==
    /\ amount = NoAmount
    /\ text = NoText
    /\ parsed = NotParsed
    /\ valid = <<>>

TaxIdle ==
    /\ call = [op |-> "none"]
    /\ result = [ok |-> FALSE, error |-> "not returned"]

\* either an amount to format, or a string the caller wrote
InitInr ==
    /\ \/ amount \in Amounts /\ text = NoText
       \/ amount = NoAmount /\ text \in Literals
    /\ parsed = NotParsed
    /\ valid = <<>>
    /\ TaxIdle
    /\ FyIdle
    /\ ObjIdle

SpecInr == InitInr /\ [][NextInr]_vars

----------------------------------------------------------------------------
(* TaxCalculator: constants *)

Infinity == 2147483647

NEW_REGIME_SLABS ==
    << <<0, 300000, 0>>,
       <<300000, 700000, 5>>,
       <<700000, 1000000, 10>>,
       <<1000000, 1200000, 15>>,
       <<1200000, 1500000, 20>>,
       <<1500000, Infinity, 30>> >>

OLD_REGIME_SLABS ==
    << <<0, 250000, 0>>,
       <<250000, 500000, 5>>,
       <<500000, 1000000, 20>>,
       <<1000000, Infinity, 30>> >>

STANDARD_DEDUCTION == 50000
REBATE_87A_LIMIT == 700000
REBATE_87A_AMOUNT == 12500
LIMIT_80C == 150000
LIMIT_80D == 25000
SURCHARGE_T1 == 5000000
SURCHARGE_T2 == 10000000
SURCHARGE_T3 == 20000000

----------------------------------------------------------------------------
(* TaxCalculator: the computation *)

\* the for loop of _calculate_tax_by_slabs from slab k on, tax accumulated so far
RECURSIVE SlabLoop_OffByOne(_, _, _, _)
SlabLoop_OffByOne(income, slabs, k, tax) ==
    IF k > Len(slabs) THEN tax
    ELSE IF income <= slabs[k][1] THEN tax
    ELSE LET taxable_in_slab == Min(income, slabs[k][2]) - slabs[k][1] + 1
         IN  SlabLoop_OffByOne(income, slabs, k + 1,
                      tax + (taxable_in_slab * slabs[k][3]) * (UnitsPerRupee \div 100))
RECURSIVE SlabLoop_NoLower(_, _, _, _)
SlabLoop_NoLower(income, slabs, k, tax) ==
    IF k > Len(slabs) THEN tax
    ELSE IF income <= slabs[k][1] THEN tax
    ELSE LET taxable_in_slab == Min(income, slabs[k][2])
         IN  SlabLoop_NoLower(income, slabs, k + 1,
                      tax + (taxable_in_slab * slabs[k][3]) * (UnitsPerRupee \div 100))
RECURSIVE SlabLoop(_, _, _, _)
SlabLoop(income, slabs, k, tax) ==
    IF k > Len(slabs) THEN tax
    ELSE IF income <= slabs[k][1] THEN tax
    ELSE LET taxable_in_slab == Min(income, slabs[k][2]) - slabs[k][1]
         IN  SlabLoop(income, slabs, k + 1,
                      tax + (taxable_in_slab * slabs[k][3]) * (UnitsPerRupee \div 100))

_calculate_tax_by_slabs(income, slabs) == SlabLoop(income, slabs, 1, 0)

_calculate_surcharge_Strict(tax_before_rebate, income) ==
    IF income < SURCHARGE_T1 THEN 0
    ELSE IF income < SURCHARGE_T2 THEN PercentOf(tax_before_rebate, 10)
    ELSE IF income < SURCHARGE_T3 THEN PercentOf(tax_before_rebate, 15)
    ELSE PercentOf(tax_before_rebate, 25)
_calculate_surcharge(tax_before_rebate, income) ==
    IF income <= SURCHARGE_T1 THEN 0
    ELSE IF income <= SURCHARGE_T2 THEN PercentOf(tax_before_rebate, 10)
    ELSE IF income <= SURCHARGE_T3 THEN PercentOf(tax_before_rebate, 15)
    ELSE PercentOf(tax_before_rebate, 25)

\* the body shared by the three branches of _calculate_marginal_relief
ReliefAbove(threshold, income, tax_before_rebate, surcharge) ==
    LET threshold_tax_approx == MulDiv(tax_before_rebate, threshold, income)
        excess_income == Rupees(income - threshold)
        excess_tax == tax_before_rebate + surcharge - threshold_tax_approx
    IN  IF excess_tax > excess_income
        THEN Min(excess_tax - excess_income, surcharge)
        ELSE 0

_calculate_marginal_relief(income, tax_before_rebate, surcharge) ==
    IF surcharge = 0 THEN 0
    ELSE IF income > SURCHARGE_T1 /\ income <= SURCHARGE_T2
         THEN ReliefAbove(SURCHARGE_T1, income, tax_before_rebate, surcharge)
    ELSE IF income > SURCHARGE_T2 /\ income <= SURCHARGE_T3
         THEN ReliefAbove(SURCHARGE_T2, income, tax_before_rebate, surcharge)
    ELSE IF income > SURCHARGE_T3
         THEN ReliefAbove(SURCHARGE_T3, income, tax_before_rebate, surcharge)
    ELSE 0

\* final_tax / income * 100, in 1/100 of a percent
EffectiveRate(final_tax, income) ==
    IF income > 0 THEN MulDiv(final_tax, 10000 \div UnitsPerRupee, income) ELSE 0

\* max(0, income - STANDARD_DEDUCTION)
TaxableNew_Unclamped(income) == income - STANDARD_DEDUCTION
TaxableNew(income) == Max(0, income - STANDARD_DEDUCTION)

\* the Section 87A rebate of the new regime
Rebate87A_Strict(income, tax_before_rebate) ==
    IF income < REBATE_87A_LIMIT
    THEN Min(tax_before_rebate, Rupees(REBATE_87A_AMOUNT))
    ELSE 0
Rebate87A(income, tax_before_rebate) ==
    IF income <= REBATE_87A_LIMIT
    THEN Min(tax_before_rebate, Rupees(REBATE_87A_AMOUNT))
    ELSE 0

\* final tax of the new regime
FinalTaxNew_NoRebate(tax_before_rebate, rebate_87a, surcharge_after_relief) ==
    Max(0, tax_before_rebate + surcharge_after_relief)
FinalTaxNew(tax_before_rebate, rebate_87a, surcharge_after_relief) ==
    Max(0, tax_before_rebate - rebate_87a + surcharge_after_relief)

\* min(deduction_80c, 150000) and min(deduction_80d, 25000)
Clamp80C_None(deduction_80c) == deduction_80c
Clamp80C(deduction_80c) == Min(deduction_80c, LIMIT_80C)
Clamp80D(deduction_80d) == Min(deduction_80d, LIMIT_80D)

\* months_worked is <<>> for None and <<m>> for the integer m
WithMonths_Prorated(res, months_worked) ==
    IF months_worked # <<>>
    THEN [res EXCEPT !.final_tax = MulDiv(@, months_worked[1], 12)]
             @@ [months_worked |-> months_worked[1]]
    ELSE res
WithMonths(res, months_worked) ==
    IF months_worked # <<>>
    THEN res @@ [months_worked |-> months_worked[1]]
    ELSE res

_calculate_new_regime(income, months_worked) ==
    LET taxable_income == TaxableNew(income)
        tax_before_rebate == _calculate_tax_by_slabs(taxable_income, NEW_REGIME_SLABS)
        rebate_87a == Rebate87A(income, tax_before_rebate)
        surcharge == _calculate_surcharge(tax_before_rebate, income)
        marginal_relief == _calculate_marginal_relief(income, tax_before_rebate, surcharge)
        surcharge_after_relief == Max(0, surcharge - marginal_relief)
        final_tax == FinalTaxNew(tax_before_rebate, rebate_87a, surcharge_after_relief)
    IN  WithMonths([ok |-> TRUE,
                    taxable_income |-> taxable_income,
                    tax_before_rebate |-> tax_before_rebate,
                    rebate_87a |-> rebate_87a,
                    surcharge |-> surcharge_after_relief,
                    marginal_relief |-> marginal_relief,
                    final_tax |-> final_tax,
                    effective_rate |-> EffectiveRate(final_tax, income),
                    regime_used |-> "new_regime"], months_worked)

_calculate_old_regime(income, deduction_80c, deduction_80d, months_worked) ==
    LET ded_80c == Clamp80C(deduction_80c)
        ded_80d == Clamp80D(deduction_80d)
        taxable_income == Max(0, (income - STANDARD_DEDUCTION) - ded_80c - ded_80d)
        tax_before_rebate == _calculate_tax_by_slabs(taxable_income, OLD_REGIME_SLABS)
        rebate_87a == 0
        surcharge == _calculate_surcharge(tax_before_rebate, income)
        marginal_relief == _calculate_marginal_relief(income, tax_before_rebate, surcharge)
        surcharge_after_relief == Max(0, surcharge - marginal_relief)
        final_tax == tax_before_rebate + surcharge_after_relief
    IN  WithMonths([ok |-> TRUE,
                    taxable_income |-> taxable_income,
                    tax_before_rebate |-> tax_before_rebate,
                    rebate_87a |-> rebate_87a,
                    surcharge |-> surcharge_after_relief,
                    marginal_relief |-> marginal_relief,
                    final_tax |-> final_tax,
                    effective_rate |-> EffectiveRate(final_tax, income),
                    regime_used |-> "old_regime",
                    deduction_80c |-> ded_80c,
                    deduction_80d |-> ded_80d], months_worked)

Raise(message) == [ok |-> FALSE, error |-> message]

\* the three checks at the head of calculate_tax: the message raised, or ""
Validate_NoMonths(income, regime, months_worked) ==
    IF income < 0 THEN "Income cannot be negative"
    ELSE IF regime \notin {"new_regime", "old_regime"}
         THEN "Regime must be 'new_regime' or 'old_regime'"
    ELSE ""
Validate(income, regime, months_worked) ==
    IF income < 0 THEN "Income cannot be negative"
    ELSE IF regime \notin {"new_regime", "old_regime"}
         THEN "Regime must be 'new_regime' or 'old_regime'"
    ELSE IF months_worked # <<>> /\ (months_worked[1] < 1 \/ months_worked[1] > 12)
         THEN "months_worked must be between 1 and 12"
    ELSE ""

calculate_tax(income, regime, deduction_80c, deduction_80d, months_worked) ==
    IF Validate(income, regime, months_worked) # ""
    THEN Raise(Validate(income, regime, months_worked))
    ELSE IF regime = "new_regime"
         THEN _calculate_new_regime(income, months_worked)
    ELSE _calculate_old_regime(income, deduction_80c, deduction_80d, months_worked)

\* the if / elif / else of compare_regimes
Recommend_Ties(new_tax, old_tax) ==
    IF new_tax <= old_tax THEN "new_regime"
    ELSE IF old_tax < new_tax THEN "old_regime"
    ELSE "equal"
Recommend(new_tax, old_tax) ==
    IF new_tax < old_tax THEN "new_regime"
    ELSE IF old_tax < new_tax THEN "old_regime"
    ELSE "equal"

Savings(new_tax, old_tax) ==
    IF new_tax < old_tax THEN old_tax - new_tax
    ELSE IF old_tax < new_tax THEN new_tax - old_tax
    ELSE 0

compare_regimes(income, deduction_80c, deduction_80d) ==
    LET new_regime_result == calculate_tax(income, "new_regime", 0, 0, <<>>)
        old_regime_result == calculate_tax(income, "old_regime",
                                           deduction_80c, deduction_80d, <<>>)
    IN  IF ~new_regime_result.ok THEN new_regime_result
        ELSE IF ~old_regime_result.ok THEN old_regime_result
        ELSE LET new_tax == new_regime_result.final_tax
                 old_tax == old_regime_result.final_tax
                 recommended == Recommend(new_tax, old_tax)
                 savings == Savings(new_tax, old_tax)
             IN  [ok |-> TRUE,
                  new_regime_tax |-> new_tax,
                  old_regime_tax |-> old_tax,
                  recommended_regime |-> recommended,
                  savings |-> savings,
                  new_regime_details |-> new_regime_result,
                  old_regime_details |-> old_regime_result]

----------------------------------------------------------------------------
(* TaxCalculator: the inputs the model draws *)

GridStep == 1000000

IncomeMarks ==
    {0, STANDARD_DEDUCTION, 300000, 350000, 500000, 600000, REBATE_87A_LIMIT,
     750000, 800000, 1050000, SURCHARGE_T1, SURCHARGE_T2, SURCHARGE_T3}

Incomes ==
    {m + d : m \in IncomeMarks, d \in (0 - Window)..Window}
        \cup {k * GridStep : k \in 0..GridN}
        \cup {5100000, 10300000}

Omitted == "<omitted>"
Regimes == {"new_regime", "old_regime", "flat_regime", Omitted}
Ded80cValues == {0 - 10000, 0, 100000, 200000}
Ded80dValues == {0, 25000, 50000}
MonthsValues == {<<>>, <<0>>, <<1>>, <<12>>, <<13>>}

DefaultRegime == "new_regime"

----------------------------------------------------------------------------
(* TaxCalculator: the calls *)

NoCall == [op |-> "none"]
NoResult == [ok |-> FALSE, error |-> "not returned"]

CalculateTaxCalls ==
    {[op |-> "calculate_tax", income |-> i, regime |-> r,
      deduction_80c |-> c, deduction_80d |-> d, months_worked |-> m] :
        i \in Incomes, r \in Regimes, c \in Ded80cValues, d \in Ded80dValues,
        m \in MonthsValues}

CompareRegimesCalls ==
    {[op |-> "compare_regimes", income |-> i,
      deduction_80c |-> c, deduction_80d |-> d] :
        i \in Incomes, c \in Ded80cValues, d \in Ded80dValues}

\* the pending call calculate_tax(...) runs and returns or raises
CalculateTax ==
    /\ call.op = "calculate_tax"
    /\ result = NoResult
    /\ result' = calculate_tax(call.income,
                               IF call.regime = Omitted THEN DefaultRegime
                                                        ELSE call.regime,
                               call.deduction_80c, call.deduction_80d,
                               call.months_worked)
    /\ UNCHANGED <<call, inrVars, fyVars, objVars>>

\* the pending call compare_regimes(...) runs and returns or raises
CompareRegimes ==
    /\ call.op = "compare_regimes"
    /\ result = NoResult
    /\ result' = compare_regimes(call.income, call.deduction_80c, call.deduction_80d)
    /\ UNCHANGED <<call, inrVars, fyVars, objVars>>

NextTax == CalculateTax \/ CompareRegimes

InitTax ==
    /\ call \in CalculateTaxCalls \cup CompareRegimesCalls
    /\ result = NoResult
    /\ InrIdle
    /\ FyIdle
    /\ ObjIdle

SpecTax == InitTax /\ [][NextTax]_vars

----------------------------------------------------------------------------
(* Properties of the tax calculator, checked under SpecTax *)

Returned == result # NoResult
CalcReturned == call.op = "calculate_tax" /\ Returned
CalcOk == CalcReturned /\ result.ok
RegimeOf(c) == IF c.regime = Omitted THEN DefaultRegime ELSE c.regime
NewOk == CalcOk /\ RegimeOf(call) = "new_regime"
OldOk == CalcOk /\ RegimeOf(call) = "old_regime"

\* final_tax of the same regime and deductions as the last call, at income i
FinalTaxAt(i) ==
    calculate_tax(i, RegimeOf(call), call.deduction_80c, call.deduction_80d,
                  <<>>).final_tax

\* C1: tax monotonicity.  With regime and deductions fixed, a higher income
\* never has a lower final_tax: for every income1 with 0 <= income1 < income,
\* final_tax(income1) <= final_tax(income), the surcharge thresholds included.
C1_TaxMonotone ==
    CalcOk =>
        \A i1 \in Incomes :
            (0 <= i1 /\ i1 < call.income) => FinalTaxAt(i1) <= result.final_tax

\* C2: marginal relief bound.  For every surcharge threshold T and every
\* income I > T, final_tax(I) - final_tax(T) <= I - T.
C2_MarginalReliefBound ==
    CalcOk =>
        \A T \in {SURCHARGE_T1, SURCHARGE_T2, SURCHARGE_T3} :
            call.income > T =>
                result.final_tax - FinalTaxAt(T) <= Rupees(call.income - T)

\* C3: Section 87A rebate.  New regime: rebate_87a = min(tax_before_rebate,
\* 12500) when income <= 700000 and 0 when income > 700000, so that income
\* 700000 has a positive rebate and 700001 has none; old regime: always 0.
C3_Rebate87A ==
    /\ NewOk =>
        /\ call.income <= 700000 =>
               result.rebate_87a = Min(result.tax_before_rebate, Rupees(12500))
        /\ call.income > 700000 => result.rebate_87a = 0
        /\ call.income = 700000 => result.rebate_87a > 0
    /\ OldOk => result.rebate_87a = 0

C3_Witness ==
    /\ NewOk
    /\ call.income = 700000
    /\ result.rebate_87a = Rupees(12500)

InSecondSlab == NewOk /\ call.income - 50000 > 300000 /\ call.income - 50000 <= 700000

\* 5% of (taxable_income - 300000)
FivePercentTax == PercentOf(Rupees(result.taxable_income - 300000), 5)

C6_ZeroBelowDeduction ==
    /\ (/\ CalcReturned
        /\ call.income >= 0 /\ call.income <= 50000
        /\ RegimeOf(call) \in {"new_regime", "old_regime"}
        /\ call.deduction_80c >= 0 /\ call.deduction_80d >= 0
        /\ call.months_worked \in {<<>>} \cup {<<m>> : m \in 1..12}) =>
            /\ result.ok
            /\ result.taxable_income = 0
            /\ result.final_tax = 0
            /\ call.income = 0 => result.effective_rate = 0
    /\ CalcOk => result.regime_used = RegimeOf(call)

C6_Witness ==
    /\ OldOk
    /\ call.income = 49999
    /\ call.deduction_80c = 100000
    /\ result.taxable_income = 0

\* C7: old-regime deduction clamps.  The result reports deduction_80c =
\* min(ded_80c, 150000), deduction_80d = min(ded_80d, 25000) and
\* taxable_income = max(0, income - 50000 - deduction_80c - deduction_80d);
\* amounts above the caps change no field of the result.
C7_DeductionClamps ==
    OldOk =>
        /\ result.deduction_80c = Min(call.deduction_80c, 150000)
        /\ result.deduction_80d = Min(call.deduction_80d, 25000)
        /\ result.taxable_income =
               Max(0, call.income - 50000 - result.deduction_80c
                                          - result.deduction_80d)
        /\ result = calculate_tax(call.income, "old_regime",
                                  Min(call.deduction_80c, 150000),
                                  Min(call.deduction_80d, 25000),
                                  call.months_worked)

C7_Witness ==
    /\ OldOk
    /\ call.income = 800000
    /\ call.deduction_80c = 200000 /\ call.deduction_80d = 50000
    /\ result.deduction_80c = 150000 /\ result.deduction_80d = 25000
    /\ result.taxable_income = 575000

Abs(x) == IF x < 0 THEN 0 - x ELSE x

\* C8: compare_regimes consistency.  With new_tax the new-regime final_tax
\* (no deductions) and old_tax the old-regime final_tax (given deductions):
\* savings = |new_tax - old_tax| >= 0, recommended_regime is "equal" iff the
\* taxes are equal, "new_regime" iff new_tax < old_tax, "old_regime" iff
\* old_tax < new_tax, and the reported taxes are those of the detail records.
C8_CompareConsistent ==
    (call.op = "compare_regimes" /\ Returned /\ call.income >= 0) =>
        LET new_tax == calculate_tax(call.income, "new_regime", 0, 0, <<>>).final_tax
            old_tax == calculate_tax(call.income, "old_regime", call.deduction_80c,
                                     call.deduction_80d, <<>>).final_tax
        IN  /\ result.ok
            /\ result.new_regime_details.regime_used = "new_regime"
            /\ result.old_regime_details.regime_used = "old_regime"
            /\ result.old_regime_details.deduction_80c = Min(call.deduction_80c, 150000)
            /\ result.new_regime_tax = result.new_regime_details.final_tax
            /\ result.old_regime_tax = result.old_regime_details.final_tax
            /\ result.new_regime_tax = new_tax
            /\ result.old_regime_tax = old_tax
            /\ result.savings = Abs(new_tax - old_tax)
            /\ result.savings >= 0
            /\ (result.recommended_regime = "equal") <=> (new_tax = old_tax)
            /\ (result.recommended_regime = "new_regime") <=> (new_tax < old_tax)
            /\ (result.recommended_regime = "old_regime") <=> (old_tax < new_tax)

C8_Witness ==
    /\ call.op = "compare_regimes" /\ Returned /\ result.ok
    /\ call.income = 300000
    /\ result.recommended_regime = "equal"
    /\ result.savings = 0

\* C9: calculate_tax validation.  The call raises, returning no result, when
\* income < 0, when the regime is neither "new_regime" nor "old_regime", or
\* when months_worked is given outside 1..12; every other call returns a
\* result.  The regime defaults to "new_regime".
C9_Validation ==
    CalcReturned =>
        /\ ~result.ok <=>
               \/ call.income < 0
               \/ RegimeOf(call) \notin {"new_regime", "old_regime"}
               \/ /\ call.months_worked # <<>>
                  /\ call.months_worked[1] \notin 1..12
        /\ ~result.ok => DOMAIN result = {"ok", "error"}
        /\ result.ok => "final_tax" \in DOMAIN result
        /\ (call.regime = Omitted /\ result.ok) => result.regime_used = "new_regime"

C9_Witness ==
    /\ CalcReturned
    /\ call.income = 500000 /\ call.regime = "new_regime"
    /\ call.months_worked = <<13>>
    /\ ~result.ok

----------------------------------------------------------------------------
(* Properties of the formatter and parser, checked under SpecInr *)

TwoDecimals(a) == a # NoAmount /\ ~a.neg /\ a.frac % 10 = 0

\* C10: round trip.  For every non-negative amount with at most two decimal
\* digits, of any magnitude, parse_inr(format_inr(amount)) is the amount.
C10_RoundTrip ==
    (parsed # NotParsed /\ TwoDecimals(amount)) =>
        /\ parsed.ok
        /\ parsed.value = amount

C10_Witness ==
    /\ amount = Amt(FALSE, 10000000, 560)
    /\ text = <<RUPEE, "1", ",", "0", "0", ",", "0", "0", ",", "0", "0", "0",
                ".", "5", "6">>
    /\ parsed # NotParsed
    /\ parsed.value = amount

Str1Lakh == <<RUPEE, "1", ",", "0", "0", ",", "0", "0", "0", ".", "0", "0">>
Str1Crore == <<RUPEE, "1", ",", "0", "0", ",", "0", "0", ",", "0", "0", "0", ".", "0", "0">>

\* the r-th character of g counted from the right
FromRight(g, r) == g[Len(g) - r + 1]

\* Indian grouping of a digit string of four or more digits: a comma exactly
\* at every third place from the right starting at the fourth, that is after
\* a rightmost group of three and then after every group of two
CommasIndian(g) ==
    /\ Len(g) >= 5
    /\ Len(g) % 3 # 1
    /\ \A r \in 1..Len(g) :
           IF r >= 4 /\ r % 3 = 1 THEN FromRight(g, r) = ","
                                  ELSE FromRight(g, r) \in DigitSet

Formatted == text # NoText /\ amount # NoAmount

\* C11: Indian grouping shape.  format_inr returns an optional leading '-'
\* (present iff the amount is negative, before the symbol), the rupee symbol,
\* the grouped integer part, '.', and two digits.  An integer part of fewer
\* than 4 digits has no comma; otherwise the rightmost group has 3 digits and
\* the groups to its left 2, the leftmost 1 or 2; without the commas the
\* group string is the integer part.
C11_GroupingShape ==
    Formatted =>
        LET signed == text[1] = "-"
            rest == IF signed THEN Tail(text) ELSE text
            n == Len(rest)
            g == SubSeq(rest, 2, n - 3)
        IN  /\ signed <=> amount.neg
            /\ n >= 5
            /\ rest[1] = RUPEE
            /\ rest[n - 2] = "."
            /\ rest[n - 1] \in DigitSet /\ rest[n] \in DigitSet
            /\ Remove(g, ",") = IntToStr(amount.whole)
            /\ IF amount.whole < 1000 THEN g = IntToStr(amount.whole)
                                      ELSE CommasIndian(g)
            /\ amount = Amt(FALSE, 999, 0) =>
                   text = <<RUPEE, "9", "9", "9", ".", "0", "0">>
            /\ amount = Amt(FALSE, 1000, 0) =>
                   text = <<RUPEE, "1", ",", "0", "0", "0", ".", "0", "0">>
            /\ amount = Amt(FALSE, 100000, 0) => text = Str1Lakh
            /\ amount = Amt(FALSE, 10000000, 0) => text = Str1Crore
            /\ amount = Amt(TRUE, 100, 0) =>
                   text = <<"-", RUPEE, "1", "0", "0", ".", "0", "0">>

C11_Witness ==
    /\ amount = Amt(TRUE, 12345678, 560)
    /\ text = <<"-", RUPEE, "1", ",", "2", "3", ",", "4", "5", ",", "6", "7", "8",
                ".", "5", "6">>

\* C12: two-decimal rounding.  For every amount a >= 0, format_inr(a) shows
\* a rounded to the nearest paisa: parse_inr(format_inr(a)) is within 0.005
\* of a, a fraction that rounds up to 1.00 carrying into the rupees.
C12_NearestPaisa ==
    (Formatted /\ parsed # NotParsed /\ ~amount.neg) =>
        /\ parsed.ok
        /\ LET diff == (parsed.value.whole - amount.whole) * 1000
                           + (parsed.value.frac - amount.frac)
           IN  diff <= 5 /\ diff >= 0 - 5

\* text without rupee symbols, spaces and commas
Bare(s) == SelectSeq(s, LAMBDA ch : ch \notin {RUPEE, " ", ","})

\* a decimal number: an optional sign, then digits with at most one point
\* among them and at least one digit
Numeric(s) ==
    LET body == IF s # <<>> /\ s[1] \in {"-", "+"} THEN Tail(s) ELSE s
        points == {k \in 1..Len(body) : body[k] = "."}
    IN  /\ Cardinality(points) <= 1
        /\ \A k \in (1..Len(body)) \ points : body[k] \in DigitSet
        /\ Len(body) > Cardinality(points)

SameOutcome(p, q) == p.ok = q.ok /\ (p.ok => p.value = q.value)

TenLakhSpellings ==
    { <<RUPEE, "1", "0", ",", "0", "0", ",", "0", "0", "0">>,
      <<RUPEE, "1", ",", "0", "0", "0", ",", "0", "0", "0">>,
      <<"1", "0", "0", "0", "0", "0", "0">> }

\* C13: parse_inr is lenient but total on errors.  It raises, returning
\* nothing, when the input is empty, is not a string, or is not numeric once
\* every rupee symbol, space and comma is removed; otherwise it returns the
\* number the remaining characters denote, wherever the commas stood.
C13_ParseLenient ==
    parsed # NotParsed =>
        /\ ~parsed.ok <=> (text = <<>> \/ ~IsStr(text) \/ ~Numeric(Bare(text)))
        /\ ~parsed.ok => DOMAIN parsed = {"ok", "error"}
        /\ IsStr(text) =>
               /\ SameOutcome(parsed, parse_inr(Remove(text, ",")))
               /\ SameOutcome(parsed, parse_inr(Bare(text)))
        /\ text \in TenLakhSpellings =>
               parsed.ok /\ parsed.value = Amt(FALSE, 1000000, 0)

C13_Witness ==
    /\ text = <<"7", ",", " ", "0">>
    /\ parsed # NotParsed
    /\ parsed.ok
    /\ parsed.value = Amt(FALSE, 70, 0)

\* 1-3 digits, or 1-2 digits, zero or more ',dd' groups and a final ',ddd'
StrictInt(g) == (Len(g) \in 1..3 /\ IsDigits(g)) \/ CommasIndian(g)

\* an optional '-', a strict integer part, an optional '.' and 1-2 digits
StrictAmount(s) ==
    LET body == IF s # <<>> /\ s[1] = "-" THEN Tail(s) ELSE s
    IN  \/ StrictInt(body)
        \/ \E d \in 1..2 :
               /\ Len(body) > d + 1
               /\ FromRight(body, d + 1) = "."
               /\ IsDigits(LastN(body, d))
               /\ StrictInt(DropLastN(body, d + 1))

WesternTenLakh == <<RUPEE, "1", ",", "0", "0", "0", ",", "0", "0", "0">>

\* C14 as stated: validate_inr_format never raises and returns true exactly
\* when the trimmed string starts with the rupee symbol and the rest is an
\* optional '-' and a strictly grouped amount; false for everything else.
C14_StrictRest ==
    valid # <<>> =>
        valid[1] = (/\ IsStr(text)
                    /\ Strip(text) # <<>>
                    /\ Strip(text)[1] = RUPEE
                    /\ StrictAmount(Tail(Strip(text))))

\* C14 amended: the same, the rest of the trimmed string being trimmed again
\* before it is matched, so that whitespace between the symbol and the
\* amount is accepted ("₹ 100" is valid).
C14_StrictTrimmedRest ==
    valid # <<>> =>
        /\ valid[1] = (/\ IsStr(text)
                       /\ Strip(text) # <<>>
                       /\ Strip(text)[1] = RUPEE
                       /\ StrictAmount(Strip(Tail(Strip(text)))))
        /\ text = WesternTenLakh => valid[1] = FALSE
        /\ text = <<RUPEE, "1", "2", "3", "4">> => valid[1] = FALSE
        /\ text = <<RUPEE, "-", "1", "0", "0", ".", "0", "0">> => valid[1] = TRUE

C14_Witness ==
    /\ text = <<RUPEE, " ", "7">>
    /\ valid = <<TRUE>>

----------------------------------------------------------------------------
(* datetime: a calendar date with a time of day.  The years of the model  *)
(* stay far from datetime.MINYEAR and datetime.MAXYEAR.                   *)

Datetime(y, mo, d, h, mi, s) ==
    [year |-> y, month |-> mo, day |-> d, hour |-> h, minute |-> mi, second |-> s]

IsLeap(y) == (y % 4 = 0 /\ y % 100 # 0) \/ y % 400 = 0

DaysInMonth(y, mo) ==
    IF mo = 2 THEN (IF IsLeap(y) THEN 29 ELSE 28)
    ELSE IF mo \in {4, 6, 9, 11} THEN 30
    ELSE 31

\* datetime(y, mo, d, ...) raises ValueError unless the day exists
DayExists(y, mo, d) == mo \in 1..12 /\ d \in 1..DaysInMonth(y, mo)

\* yyyymmdd, which orders calendar days
Ymd(d) == d.year * 10000 + d.month * 100 + d.day

----------------------------------------------------------------------------
(* utils.py: get_fiscal_year *)

\* s[-n:] of a string that may be shorter than n
Suffix(s, n) == SubSeq(s, Max(1, Len(s) - n + 1), Len(s))

start_year_FromMay(d) == IF d.month > 4 THEN d.year ELSE d.year - 1
start_year(d) == IF d.month >= 4 THEN d.year ELSE d.year - 1
end_year(d) == IF d.month >= 4 THEN d.year + 1 ELSE d.year

get_fiscal_year(d) ==
    <<"F", "Y">> \o IntToStr(start_year(d)) \o <<"-">>
        \o Suffix(IntToStr(end_year(d)), 2)

FyYears == {1999, 2000, 2023, 2024, 2025, 2099}
FyDays == {1, 10, 15, 28, 29, 30, 31}
FyTimes == {<<0, 0, 0>>, <<23, 59, 59>>}
FyDates ==
    {dt \in {Datetime(y, mo, d, t[1], t[2], t[3]) :
                y \in FyYears, mo \in 1..12, d \in FyDays, t \in FyTimes} :
        DayExists(dt.year, dt.month, dt.day)}

\* date=None: the function reads the clock
DateOmitted == [omitted |-> TRUE]

\* fy = get_fiscal_year(date)
GetFiscalYear ==
    /\ date # NoDate
    /\ fy = NoText
    /\ \E now \in (IF date = DateOmitted THEN FyDates ELSE {date}) :
           fy' = get_fiscal_year(now)
    /\ UNCHANGED <<date, taxVars, inrVars, objVars>>

NextFy == GetFiscalYear

InitFy ==
    /\ date \in FyDates \cup {DateOmitted}
    /\ fy = NoText
    /\ TaxIdle
    /\ InrIdle
    /\ ObjIdle

SpecFy == InitFy /\ [][NextFy]_vars

----------------------------------------------------------------------------
(* Claims about get_fiscal_year, under SpecFy *)

FyReturned == date # NoDate /\ date # DateOmitted /\ fy # NoText

\* "FY<S>-<last two digits of S+1>"
FyLabel(S) ==
    <<"F", "Y">> \o IntToStr(S) \o <<"-">>
        \o <<DigitChar(((S + 1) \div 10) % 10), DigitChar((S + 1) % 10)>>

\* d lies between 1 April S and 31 March S+1
InFiscalYear(d, S) == Ymd(d) >= S * 10000 + 401 /\ Ymd(d) <= (S + 1) * 10000 + 331

\* C15: the label of a date in month m of year Y is FY<S>-<last two digits
\* of S+1> with S = Y when m >= 4 and S = Y - 1 otherwise; every date from
\* 1 April S to 31 March S+1 gets that same label, and 31 March and 1 April
\* of one calendar year get different labels.
C15_FiscalYearLabel ==
    FyReturned =>
        LET S == IF date.month >= 4 THEN date.year ELSE date.year - 1 IN
        /\ fy = FyLabel(S)
        /\ \A d \in FyDates : InFiscalYear(d, S) => get_fiscal_year(d) = fy
        /\ (date.month = 3 /\ date.day = 31) =>
               get_fiscal_year([date EXCEPT !.month = 4, !.day = 1]) # fy
        /\ (date.month = 4 /\ date.day = 1) =>
               get_fiscal_year([date EXCEPT !.month = 3, !.day = 31]) # fy

\* fiscal_year(Feb 10 2025) = "FY2024-25"
C15_Witness ==
    /\ FyReturned
    /\ date.year = 2025 /\ date.month = 2 /\ date.day = 10
    /\ fy = <<"F", "Y", "2", "0", "2", "4", "-", "2", "5">>

----------------------------------------------------------------------------
(* models.py: RecurringExpense *)

MaxOps == 4         \* calls made on one manager, logger or categorizer
MaxEntries == 2     \* entries a manager or logger holds at one time

Ok(v) == [ok |-> TRUE, value |-> v]

\* the first day of the month after d's, at d's time of day
FirstOfNextMonth(d) ==
    IF d.month < 12 THEN [d EXCEPT !.month = d.month + 1, !.day = 1]
    ELSE [d EXCEPT !.year = d.year + 1, !.month = 1, !.day = 1]

\* current + timedelta(days=n): the time of day is kept
RECURSIVE AddDays(_, _)
AddDays(d, n) ==
    LET left == DaysInMonth(d.year, d.month) - d.day IN
    IF n <= left THEN [d EXCEPT !.day = d.day + n]
    ELSE AddDays(FirstOfNextMonth(d), n - left - 1)

\* a < b for two datetimes
Before(a, b) ==
    \/ Ymd(a) < Ymd(b)
    \/ /\ Ymd(a) = Ymd(b)
       /\ (a.hour * 60 + a.minute) * 60 + a.second
              < (b.hour * 60 + b.minute) * 60 + b.second

\* str.lower() on the letters A-Z
UpperCase == <<"A", "B", "C", "D", "E", "F", "G", "H", "I", "J", "K", "L", "M",
               "N", "O", "P", "Q", "R", "S", "T", "U", "V", "W", "X", "Y", "Z">>
LowerCase == <<"a", "b", "c", "d", "e", "f", "g", "h", "i", "j", "k", "l", "m",
               "n", "o", "p", "q", "r", "s", "t", "u", "v", "w", "x", "y", "z">>
LowerChar(ch) ==
    IF \E i \in 1..26 : UpperCase[i] = ch
    THEN LowerCase[CHOOSE i \in 1..26 : UpperCase[i] = ch]
    ELSE ch
Lower(s) == [i \in 1..Len(s) |-> LowerChar(s[i])]

Daily == <<"d", "a", "i", "l", "y">>
Weekly == <<"w", "e", "e", "k", "l", "y">>
Monthly == <<"m", "o", "n", "t", "h", "l", "y">>
Yearly == <<"y", "e", "a", "r", "l", "y">>
valid_frequencies == {Daily, Weekly, Monthly, Yearly}

\* RecurringExpense(...): __post_init__ validates and lower-cases
RecurringExpense(amount_, description, frequency, next_due_date, category, id) ==
    IF amount_ <= 0 THEN Raise("Amount must be positive")
    ELSE IF Lower(frequency) \notin valid_frequencies
    THEN Raise("Frequency must be one of: daily, weekly, monthly, yearly")
    ELSE Ok([amount |-> amount_, description |-> description,
             frequency |-> Lower(frequency), next_due_date |-> next_due_date,
             category |-> category, id |-> id])

\* the while loop of the monthly branch: try the day, then the day before
RECURSIVE MonthlyLoop_Clamp28(_, _, _, _)
MonthlyLoop_Clamp28(year, month, day, current) ==
    IF DayExists(year, month, day)
    THEN Ok(Datetime(year, month, day, current.hour, current.minute, 0))
    ELSE IF day - 1 < 1 THEN Raise("Unable to calculate next monthly date")
    ELSE MonthlyLoop_Clamp28(year, month, 28, current)

RECURSIVE MonthlyLoop(_, _, _, _)
MonthlyLoop(year, month, day, current) ==
    IF DayExists(year, month, day)
    THEN Ok(Datetime(year, month, day, current.hour, current.minute, 0))
    ELSE IF day - 1 < 1 THEN Raise("Unable to calculate next monthly date")
    ELSE MonthlyLoop(year, month, day - 1, current)

\* RecurringExpense.calculate_next_due_date: the datetime, or the ValueError
calculate_next_due_date_ThirtyDays(self) ==
    LET current == self.next_due_date IN
    IF self.frequency = Daily THEN Ok(AddDays(current, 1))
    ELSE IF self.frequency = Weekly THEN Ok(AddDays(current, 7))
    ELSE IF self.frequency = Monthly THEN Ok(AddDays(current, 30))
    ELSE IF self.frequency = Yearly THEN
        LET year == current.year + 1 IN
        IF current.month = 2 /\ current.day = 29 THEN
            IF DayExists(year, 2, 29)
            THEN Ok(Datetime(year, 2, 29, current.hour, current.minute, 0))
            ELSE Ok(Datetime(year, 2, 28, current.hour, current.minute, 0))
        ELSE IF DayExists(year, current.month, current.day)
        THEN Ok(Datetime(year, current.month, current.day,
                         current.hour, current.minute, 0))
        ELSE Raise("day is out of range for month")
    ELSE Ok(current)
calculate_next_due_date(self) ==
    LET current == self.next_due_date IN
    IF self.frequency = Daily THEN Ok(AddDays(current, 1))
    ELSE IF self.frequency = Weekly THEN Ok(AddDays(current, 7))
    ELSE IF self.frequency = Monthly THEN
        LET month == IF current.month + 1 > 12 THEN 1 ELSE current.month + 1
            year == IF current.month + 1 > 12 THEN current.year + 1
                                               ELSE current.year
        IN  MonthlyLoop(year, month, current.day, current)
    ELSE IF self.frequency = Yearly THEN
        LET year == current.year + 1 IN
        IF current.month = 2 /\ current.day = 29 THEN
            IF DayExists(year, 2, 29)
            THEN Ok(Datetime(year, 2, 29, current.hour, current.minute, 0))
            ELSE Ok(Datetime(year, 2, 28, current.hour, current.minute, 0))
        ELSE IF DayExists(year, current.month, current.day)
        THEN Ok(Datetime(year, current.month, current.day,
                         current.hour, current.minute, 0))
        ELSE Raise("day is out of range for month")
    ELSE Ok(current)

\* Transaction(...): __post_init__ rejects a negative amount
Transaction(amount_, description, date_, category, id) ==
    IF amount_ < 0 THEN Raise("Amount cannot be negative")
    ELSE Ok([amount |-> amount_, description |-> description, date |-> date_,
             category |-> category, id |-> id])

----------------------------------------------------------------------------
(* recurring.py: RecurringExpenseManager *)

\* id=self._next_id: the id a created entry gets
FreshId_FromLength(entries, _next_id) == Len(entries) + 1
FreshId(entries, _next_id) == _next_id

\* RecurringExpenseManager()
NewManager == [recurring_expenses |-> <<>>, _next_id |-> 1]

\* the position of the first entry with the given id, 0 when there is none
FirstWithId_Position(entries, id) == IF id <= Len(entries) THEN id ELSE 0

FirstWithId(entries, id) ==
    IF \E i \in 1..Len(entries) : entries[i].id = id
    THEN CHOOSE i \in 1..Len(entries) :
             /\ entries[i].id = id
             /\ \A j \in 1..(i - 1) : entries[j].id # id
    ELSE 0

\* get_recurring_expense(recurring_id)
get_recurring_expense(self, recurring_id) ==
    FirstWithId(self.recurring_expenses, recurring_id)

\* del entries[i]
RemoveAt(entries, i) ==
    SubSeq(entries, 1, i - 1) \o SubSeq(entries, i + 1, Len(entries))

\* list.remove(x): the first entry equal to x goes
ListRemove(entries, x) ==
    RemoveAt(entries, CHOOSE i \in 1..Len(entries) :
                          /\ entries[i] = x
                          /\ \A j \in 1..(i - 1) : entries[j] # x)

NotFound == Raise("Recurring expense not found")

RecDates ==
    { Datetime(2024, 1, 31, 9, 30, 0), Datetime(2023, 1, 31, 0, 0, 0),
      Datetime(2024, 2, 29, 9, 30, 45), Datetime(2024, 3, 31, 18, 5, 0),
      Datetime(2024, 12, 31, 23, 59, 0) }

\* the add_recurring_expense calls of the model
RecurringCalls ==
    {[amount |-> 12000, description |-> "Rent", frequency |-> f,
      next_due_date |-> d, category |-> <<>>] :
        f \in valid_frequencies, d \in RecDates}
    \cup
    { [amount |-> 649, description |-> "Netflix",
       frequency |-> <<"M", "o", "n", "t", "h", "l", "y">>,
       next_due_date |-> Datetime(2024, 1, 31, 9, 30, 0),
       category |-> <<"Entertainment">>],
      [amount |-> 0, description |-> "Rent", frequency |-> Monthly,
       next_due_date |-> Datetime(2024, 1, 31, 9, 30, 0), category |-> <<>>],
      [amount |-> 500, description |-> "Parking",
       frequency |-> <<"h", "o", "u", "r", "l", "y">>,
       next_due_date |-> Datetime(2024, 1, 31, 9, 30, 0), category |-> <<>>] }

\* the ids a caller passes: the ones in use and unknown ones
CallIds == 1..MaxOps

recFrame == <<taxVars, inrVars, fyVars, logger, goal_manager, categorizer,
              transaction, dup_used, filterVars>>

\* manager.add_recurring_expense(amount, description, frequency, next_due_date, category)
AddRecurringExpense ==
    /\ manager # NoObject
    /\ ops < MaxOps
    /\ \E c \in RecurringCalls :
         LET recurring == RecurringExpense(c.amount, c.description, c.frequency,
                                           c.next_due_date, c.category,
                                           FreshId(manager.recurring_expenses,
                                                   manager._next_id))
         IN  IF recurring.ok
             THEN /\ Len(manager.recurring_expenses) < MaxEntries
                  /\ manager' =
                        [recurring_expenses |->
                             Append(manager.recurring_expenses, recurring.value),
                         _next_id |-> manager._next_id + 1]
                  /\ issued' = Append(issued, recurring.value.id)
                  /\ last' = [op |-> "add_recurring_expense", raised |-> FALSE,
                              returned |-> recurring.value]
             ELSE /\ last' = [op |-> "add_recurring_expense", raised |-> TRUE,
                              error |-> recurring.error]
                  /\ UNCHANGED <<manager, issued>>
    /\ ops' = ops + 1
    /\ UNCHANGED recFrame

\* manager.generate_transaction(recurring_id)
GenerateTransaction ==
    /\ manager # NoObject
    /\ ops < MaxOps
    /\ \E recurring_id \in CallIds :
         LET i == get_recurring_expense(manager, recurring_id)
             recurring == manager.recurring_expenses[i]
             txn == Transaction(recurring.amount, recurring.description,
                                recurring.next_due_date, recurring.category, <<>>)
         IN  last' = IF i = 0
                     THEN [op |-> "generate_transaction", id |-> recurring_id,
                           raised |-> TRUE, error |-> NotFound.error]
                     ELSE IF ~txn.ok
                     THEN [op |-> "generate_transaction", id |-> recurring_id,
                           raised |-> TRUE, error |-> txn.error]
                     ELSE [op |-> "generate_transaction", id |-> recurring_id,
                           raised |-> FALSE, returned |-> txn.value]
    /\ ops' = ops + 1
    /\ UNCHANGED <<manager, issued>>
    /\ UNCHANGED recFrame

\* manager.mark_as_paid(recurring_id)
MarkAsPaid ==
    /\ manager # NoObject
    /\ ops < MaxOps
    /\ \E recurring_id \in CallIds :
         LET i == get_recurring_expense(manager, recurring_id)
             next == calculate_next_due_date(manager.recurring_expenses[i])
         IN  IF i = 0
             THEN /\ last' = [op |-> "mark_as_paid", id |-> recurring_id,
                              raised |-> TRUE, error |-> NotFound.error]
                  /\ UNCHANGED manager
             ELSE IF ~next.ok
             THEN /\ last' = [op |-> "mark_as_paid", id |-> recurring_id,
                              raised |-> TRUE, error |-> next.error]
                  /\ UNCHANGED manager
             ELSE /\ manager' = [manager EXCEPT
                        !.recurring_expenses[i].next_due_date = next.value]
                  /\ last' = [op |-> "mark_as_paid", id |-> recurring_id,
                              raised |-> FALSE]
    /\ ops' = ops + 1
    /\ UNCHANGED issued
    /\ UNCHANGED recFrame

\* manager.remove_recurring_expense(recurring_id)
RemoveRecurringExpense ==
    /\ manager # NoObject
    /\ ops < MaxOps
    /\ \E recurring_id \in CallIds :
         LET i == get_recurring_expense(manager, recurring_id) IN
         IF i = 0
         THEN /\ last' = [op |-> "remove_recurring_expense", id |-> recurring_id,
                          raised |-> TRUE, error |-> NotFound.error]
              /\ UNCHANGED manager
         ELSE /\ manager' = [manager EXCEPT !.recurring_expenses =
                    ListRemove(manager.recurring_expenses,
                               manager.recurring_expenses[i])]
              /\ last' = [op |-> "remove_recurring_expense", id |-> recurring_id,
                          raised |-> FALSE]
    /\ ops' = ops + 1
    /\ UNCHANGED issued
    /\ UNCHANGED recFrame

NextRecurring ==
    AddRecurringExpense \/ GenerateTransaction \/ MarkAsPaid \/ RemoveRecurringExpense

\* no call made yet on any object
NoCallsYet ==
    /\ last = NoOp
    /\ issued = <<>>
    /\ dup_used = FALSE
    /\ ops = 0

InitRecurring ==
    /\ manager = NewManager
    /\ logger = NoObject
    /\ goal_manager = NoObject
    /\ categorizer = NoObject
    /\ transaction = NoObject
    /\ NoCallsYet
    /\ FilterIdle
    /\ TaxIdle
    /\ InrIdle
    /\ FyIdle

SpecRecurring == InitRecurring /\ [][NextRecurring]_vars

----------------------------------------------------------------------------
(* logger.py: ExpenseLogger *)

\* ExpenseLogger()
NewLogger == [transactions |-> <<>>, _next_id |-> 1]

\* Transaction.matches(other): amount, description and calendar day
matches_SameInstant(self, other) ==
    /\ self.amount = other.amount
    /\ self.description = other.description
    /\ self.date = other.date

matches(self, other) ==
    /\ self.amount = other.amount
    /\ self.description = other.description
    /\ Ymd(self.date) = Ymd(other.date)

Morning == Datetime(2024, 1, 15, 9, 0, 0)
Evening == Datetime(2024, 1, 15, 18, 30, 0)
NextMorning == Datetime(2024, 1, 16, 9, 0, 0)

\* what datetime.now() can return while the logger is in use
LogClock == {Evening, NextMorning}

\* the log_expense calls of the model: one expense and its variations
Chai == [amount |-> 120, description |-> "Chai", category |-> <<>>,
         date |-> Morning]
LogCalls ==
    {x @@ [allow_duplicates |-> a] :
        x \in { Chai,
                [Chai EXCEPT !.date = Evening],
                [Chai EXCEPT !.date = NextMorning],
                [Chai EXCEPT !.date = DateOmitted],
                [Chai EXCEPT !.category = <<"Street Food">>],
                [Chai EXCEPT !.amount = 75],
                [Chai EXCEPT !.amount = 0],
                [Chai EXCEPT !.amount = 0 - 50],
                [Chai EXCEPT !.description = "Auto"] },
        a \in BOOLEAN}

logFrame == <<taxVars, inrVars, fyVars, manager, goal_manager, categorizer,
              transaction, filterVars>>

\* logger.log_expense(amount, description, category, date, allow_duplicates)
LogExpense ==
    /\ logger # NoObject
    /\ ops < MaxOps
    /\ \E c \in LogCalls :
       \E now \in (IF c.date = DateOmitted THEN LogClock ELSE {c.date}) :
         LET txn == Transaction(c.amount, c.description, now, c.category,
                                FreshId(logger.transactions, logger._next_id))
             made == [op |-> "log_expense", amount |-> c.amount,
                      description |-> c.description, date |-> now,
                      allow_duplicates |-> c.allow_duplicates]
         IN  /\ dup_used' = (dup_used \/ c.allow_duplicates)
             /\ IF ~txn.ok
                THEN /\ last' = made @@ [raised |-> TRUE, error |-> txn.error]
                     /\ UNCHANGED <<logger, issued>>
                ELSE IF /\ ~c.allow_duplicates
                        /\ \E k \in 1..Len(logger.transactions) :
                               matches(txn.value, logger.transactions[k])
                THEN /\ last' = made @@ [raised |-> TRUE,
                                         error |-> "Duplicate transaction detected"]
                     /\ UNCHANGED <<logger, issued>>
                ELSE /\ Len(logger.transactions) < MaxEntries
                     /\ logger' =
                           [transactions |-> Append(logger.transactions, txn.value),
                            _next_id |-> logger._next_id + 1]
                     /\ issued' = Append(issued, txn.value.id)
                     /\ last' = made @@ [raised |-> FALSE]
    /\ ops' = ops + 1
    /\ UNCHANGED logFrame

NextLogger == LogExpense

InitLogger ==
    /\ logger = NewLogger
    /\ manager = NoObject
    /\ goal_manager = NoObject
    /\ categorizer = NoObject
    /\ transaction = NoObject
    /\ NoCallsYet
    /\ FilterIdle
    /\ TaxIdle
    /\ InrIdle
    /\ FyIdle

SpecLogger == InitLogger /\ [][NextLogger]_vars

----------------------------------------------------------------------------
(* savings.py: SavingsGoalManager, and SavingsGoal of models.py *)

\* SavingsGoalManager()
NewGoalManager == [goals |-> <<>>, _next_id |-> 1]

\* what datetime.now() returns while the goals are in use
Today == Datetime(2024, 6, 15, 12, 0, 0)
LastYear == Datetime(2023, 12, 31, 0, 0, 0)
YearEnd == Datetime(2024, 12, 31, 0, 0, 0)

\* SavingsGoal(name, target_amount, deadline=deadline, id=id)
SavingsGoal(name, target_amount, deadline, id) ==
    IF target_amount <= 0 THEN Raise("Target amount must be positive")
    ELSE IF ~Before(Today, deadline) THEN Raise("Deadline must be in the future")
    ELSE Ok([name |-> name, target_amount |-> target_amount,
             current_saved |-> 0, deadline |-> deadline, id |-> id])

\* get_goal(goal_id)
get_goal(self, goal_id) == FirstWithId(self.goals, goal_id)

\* the create_goal calls of the model
GoalCalls ==
    { [name |-> "Wedding", target_amount |-> 500000, deadline |-> YearEnd],
      [name |-> "Trip", target_amount |-> 50000, deadline |-> DateOmitted],
      [name |-> "House", target_amount |-> 0, deadline |-> YearEnd],
      [name |-> "Bike", target_amount |-> 80000, deadline |-> LastYear],
      [name |-> "Laptop", target_amount |-> 60000, deadline |-> Today] }
Contributions == {0 - 100, 0, 25000}
NewDeadlines == {LastYear, Datetime(2025, 3, 31, 0, 0, 0)}

goalFrame == <<taxVars, inrVars, fyVars, manager, logger, categorizer,
               transaction, dup_used, filterVars>>

\* goal_manager.create_goal(name, target_amount, deadline)
CreateGoal ==
    /\ goal_manager # NoObject
    /\ ops < MaxOps
    /\ \E c \in GoalCalls :
         LET deadline == IF c.deadline = DateOmitted THEN AddDays(Today, 365)
                                                       ELSE c.deadline
             goal == SavingsGoal(c.name, c.target_amount, deadline,
                                 FreshId(goal_manager.goals, goal_manager._next_id))
         IN  IF goal.ok
             THEN /\ Len(goal_manager.goals) < MaxEntries
                  /\ goal_manager' = [goals |-> Append(goal_manager.goals, goal.value),
                                      _next_id |-> goal_manager._next_id + 1]
                  /\ issued' = Append(issued, goal.value.id)
                  /\ last' = [op |-> "create_goal", raised |-> FALSE,
                              returned |-> goal.value]
             ELSE /\ last' = [op |-> "create_goal", raised |-> TRUE,
                              error |-> goal.error]
                  /\ UNCHANGED <<goal_manager, issued>>
    /\ ops' = ops + 1
    /\ UNCHANGED goalFrame

\* goal_manager.add_contribution(goal_id, amount)
AddContribution ==
    /\ goal_manager # NoObject
    /\ ops < MaxOps
    /\ \E goal_id \in CallIds, amount_ \in Contributions :
         LET i == get_goal(goal_manager, goal_id)
             made == [op |-> "add_contribution", id |-> goal_id,
                      amount |-> amount_]
         IN  IF i = 0
             THEN /\ last' = made @@ [raised |-> FALSE, returned |-> FALSE]
                  /\ UNCHANGED goal_manager
             ELSE IF amount_ <= 0
             THEN /\ last' = made @@ [raised |-> TRUE,
                                      error |-> "Contribution amount must be positive"]
                  /\ UNCHANGED goal_manager
             ELSE /\ goal_manager' = [goal_manager EXCEPT !.goals[i].current_saved =
                                          goal_manager.goals[i].current_saved + amount_]
                  /\ last' = made @@ [raised |-> FALSE, returned |-> TRUE]
    /\ ops' = ops + 1
    /\ UNCHANGED issued
    /\ UNCHANGED goalFrame

\* goal_manager.delete_goal(goal_id)
DeleteGoal ==
    /\ goal_manager # NoObject
    /\ ops < MaxOps
    /\ \E goal_id \in CallIds :
         LET i == FirstWithId(goal_manager.goals, goal_id)
             made == [op |-> "delete_goal", id |-> goal_id, raised |-> FALSE]
         IN  IF i = 0
             THEN /\ last' = made @@ [returned |-> FALSE]
                  /\ UNCHANGED goal_manager
             ELSE /\ goal_manager' = [goal_manager EXCEPT
                                          !.goals = RemoveAt(goal_manager.goals, i)]
                  /\ last' = made @@ [returned |-> TRUE]
    /\ ops' = ops + 1
    /\ UNCHANGED issued
    /\ UNCHANGED goalFrame

\* goal_manager.update_goal_deadline(goal_id, new_deadline)
UpdateGoalDeadline ==
    /\ goal_manager # NoObject
    /\ ops < MaxOps
    /\ \E goal_id \in CallIds, new_deadline \in NewDeadlines :
         LET i == get_goal(goal_manager, goal_id)
             made == [op |-> "update_goal_deadline", id |-> goal_id,
                      new_deadline |-> new_deadline]
         IN  IF i = 0
             THEN /\ last' = made @@ [raised |-> FALSE, returned |-> FALSE]
                  /\ UNCHANGED goal_manager
             ELSE IF ~Before(Today, new_deadline)
             THEN /\ last' = made @@ [raised |-> TRUE,
                                      error |-> "Deadline must be in the future"]
                  /\ UNCHANGED goal_manager
             ELSE /\ goal_manager' = [goal_manager EXCEPT
                                          !.goals[i].deadline = new_deadline]
                  /\ last' = made @@ [raised |-> FALSE, returned |-> TRUE]
    /\ ops' = ops + 1
    /\ UNCHANGED issued
    /\ UNCHANGED goalFrame

NextGoals == CreateGoal \/ AddContribution \/ DeleteGoal \/ UpdateGoalDeadline

InitGoals ==
    /\ goal_manager = NewGoalManager
    /\ manager = NoObject
    /\ logger = NoObject
    /\ categorizer = NoObject
    /\ transaction = NoObject
    /\ NoCallsYet
    /\ FilterIdle
    /\ TaxIdle
    /\ InrIdle
    /\ FyIdle

SpecGoals == InitGoals /\ [][NextGoals]_vars

----------------------------------------------------------------------------
(* The three id-giving objects: one of them is in use *)

InitManagers == InitRecurring \/ InitLogger \/ InitGoals
NextManagers == NextRecurring \/ NextLogger \/ NextGoals
SpecManagers == InitManagers /\ [][NextManagers]_vars

----------------------------------------------------------------------------
(* categorizer.py: Categorizer *)

DEFAULT_CATEGORIES ==
    <<"Groceries", "Transport", "Festivals", "Street Food", "Utilities",
      "Entertainment", "Healthcare", "Education", "Shopping", "Other">>

\* Categorizer(valid_categories): None and the empty list give the defaults
Categorizer(valid_categories) ==
    [valid_categories |->
        IF valid_categories = <<>> \/ valid_categories[1] = <<>>
        THEN DEFAULT_CATEGORIES
        ELSE valid_categories[1]]

\* category in self.valid_categories
is_valid_category_Any(self, category) == TRUE
is_valid_category(self, category) ==
    \E k \in 1..Len(self.valid_categories) : self.valid_categories[k] = category

\* word in desc_lower: word is a substring of desc_lower
Contains(desc_lower, word) ==
    \E i \in 0..(Len(desc_lower) - Len(word)) :
        SubSeq(desc_lower, i + 1, i + Len(word)) = word

\* the keyword lists of auto_categorize with their categories, in the order
\* in which they are tried
KEYWORDS ==
   <<
      [category |-> "Street Food", words |->
        << <<"c", "h", "a", "i">>,
           <<"t", "e", "a">>,
           <<"s", "a", "m", "o", "s", "a">>,
           <<"b", "i", "r", "y", "a", "n", "i">>,
           <<"v", "a", "d", "a", " ", "p", "a", "v">>,
           <<"p", "a", "n", "i", " ", "p", "u", "r", "i">>,
           <<"p", "a", "v", " ", "b", "h", "a", "j", "i">>,
           <<"d", "o", "s", "a">>,
           <<"i", "d", "l", "i">>,
           <<"c", "h", "a", "a", "t">> >>],
      [category |-> "Transport", words |->
        << <<"a", "u", "t", "o">>,
           <<"r", "i", "c", "k", "s", "h", "a", "w">>,
           <<"c", "a", "b">>,
           <<"o", "l", "a">>,
           <<"u", "b", "e", "r">>,
           <<"m", "e", "t", "r", "o">>,
           <<"b", "u", "s">>,
           <<"t", "r", "a", "i", "n">>,
           <<"t", "a", "x", "i">>,
           <<"f", "a", "r", "e">> >>],
      [category |-> "Festivals", words |->
        << <<"d", "i", "w", "a", "l", "i">>,
           <<"h", "o", "l", "i">>,
           <<"r", "a", "k", "h", "i">>,
           <<"d", "u", "s", "s", "e", "h", "r", "a">>,
           <<"g", "a", "n", "e", "s", "h">>,
           <<"n", "a", "v", "r", "a", "t", "r", "i">>,
           <<"e", "i", "d">>,
           <<"c", "h", "r", "i", "s", "t", "m", "a", "s">>,
           <<"p", "u", "j", "a">>,
           <<"f", "e", "s", "t", "i", "v", "a", "l">> >>],
      [category |-> "Groceries", words |->
        << <<"r", "i", "c", "e">>,
           <<"a", "t", "t", "a">>,
           <<"w", "h", "e", "a", "t">>,
           <<"d", "a", "l">>,
           <<"v", "e", "g", "e", "t", "a", "b", "l", "e", "s">>,
           <<"v", "e", "g", "g", "i", "e", "s">>,
           <<"g", "r", "o", "c", "e", "r", "y">>,
           <<"g", "r", "o", "c", "e", "r", "i", "e", "s">>,
           <<"m", "i", "l", "k">>,
           <<"b", "r", "e", "a", "d">>,
           <<"e", "g", "g", "s">> >>],
      [category |-> "Utilities", words |->
        << <<"e", "l", "e", "c", "t", "r", "i", "c", "i", "t", "y">>,
           <<"e", "l", "e", "c", "t", "r", "i", "c">>,
           <<"w", "a", "t", "e", "r">>,
           <<"g", "a", "s">>,
           <<"c", "y", "l", "i", "n", "d", "e", "r">>,
           <<"b", "i", "l", "l">>,
           <<"r", "e", "c", "h", "a", "r", "g", "e">>,
           <<"b", "r", "o", "a", "d", "b", "a", "n", "d">>,
           <<"i", "n", "t", "e", "r", "n", "e", "t">>,
           <<"w", "i", "f", "i">> >>],
      [category |-> "Entertainment", words |->
        << <<"m", "o", "v", "i", "e">>,
           <<"c", "i", "n", "e", "m", "a">>,
           <<"t", "h", "e", "a", "t", "e", "r">>,
           <<"c", "o", "n", "c", "e", "r", "t">>,
           <<"s", "h", "o", "w">>,
           <<"r", "e", "s", "t", "a", "u", "r", "a", "n", "t">>,
           <<"n", "e", "t", "f", "l", "i", "x">>,
           <<"s", "p", "o", "t", "i", "f", "y">>,
           <<"g", "a", "m", "e">> >>],
      [category |-> "Healthcare", words |->
        << <<"m", "e", "d", "i", "c", "i", "n", "e">>,
           <<"m", "e", "d", "i", "c", "a", "l">>,
           <<"d", "o", "c", "t", "o", "r">>,
           <<"h", "o", "s", "p", "i", "t", "a", "l">>,
           <<"c", "l", "i", "n", "i", "c">>,
           <<"p", "h", "a", "r", "m", "a", "c", "y">>,
           <<"h", "e", "a", "l", "t", "h">>,
           <<"i", "n", "s", "u", "r", "a", "n", "c", "e">>,
           <<"c", "h", "e", "c", "k", "u", "p">> >>],
      [category |-> "Education", words |->
        << <<"b", "o", "o", "k">>,
           <<"b", "o", "o", "k", "s">>,
           <<"t", "u", "i", "t", "i", "o", "n">>,
           <<"c", "o", "u", "r", "s", "e">>,
           <<"c", "l", "a", "s", "s">>,
           <<"s", "c", "h", "o", "o", "l">>,
           <<"c", "o", "l", "l", "e", "g", "e">>,
           <<"u", "n", "i", "v", "e", "r", "s", "i", "t", "y">>,
           <<"e", "d", "u", "c", "a", "t", "i", "o", "n">>,
           <<"s", "t", "u", "d", "y">> >>],
      [category |-> "Shopping", words |->
        << <<"c", "l", "o", "t", "h", "e", "s">>,
           <<"c", "l", "o", "t", "h", "i", "n", "g">>,
           <<"s", "h", "o", "e", "s">>,
           <<"e", "l", "e", "c", "t", "r", "o", "n", "i", "c", "s">>,
           <<"p", "h", "o", "n", "e">>,
           <<"l", "a", "p", "t", "o", "p">>,
           <<"s", "h", "o", "p", "p", "i", "n", "g">>,
           <<"a", "m", "a", "z", "o", "n">>,
           <<"f", "l", "i", "p", "k", "a", "r", "t">>,
           <<"m", "y", "n", "t", "r", "a">> >>]
   >>

\* any(word in desc_lower for word in words)
AnyWord(desc_lower, words) ==
    \E k \in 1..Len(words) : Contains(desc_lower, words[k])

\* the category auto_categorize assigns to a description, <<>> when no
\* keyword list matches
auto_categorize(description) ==
    LET desc_lower == Lower(description)
        hits == {g \in 1..Len(KEYWORDS) : AnyWord(desc_lower, KEYWORDS[g].words)}
    IN  IF hits = {} THEN <<>>
        ELSE <<KEYWORDS[CHOOSE g \in hits : \A h \in hits : g <= h].category>>

\* the lists a Categorizer is constructed with: none, empty, a custom one
CategoryLists == {<<>>, << <<>> >>, << <<"Food", "Rent", "Transport">> >>}
\* the category a transaction is constructed with
GivenCategories == {<<>>, <<"Transport">>, <<"Food">>, <<"Misc">>, <<"">>}
\* the category a caller asks for
AskedCategories == {"Shopping", "Transport", "Food", "Travel", ""}
\* the description a transaction is constructed with
AutoFare == <<"A", "u", "t", "o", " ", "f", "a", "r", "e">>
MasalaChai == <<"M", "a", "s", "a", "l", "a", " ", "C", "H", "A", "I">>
Rent == <<"R", "e", "n", "t">>
Descriptions == {AutoFare, MasalaChai, Rent}

catFrame == <<taxVars, inrVars, fyVars, manager, logger, goal_manager,
              issued, dup_used, filterVars>>

\* categorizer.categorize_transaction(transaction, category, overwrite)
CategorizeTransaction ==
    /\ categorizer # NoObject
    /\ ops < MaxOps
    /\ \E category \in AskedCategories, overwrite \in BOOLEAN :
         LET made == [op |-> "categorize_transaction", category |-> category,
                      overwrite |-> overwrite]
         IN  IF ~is_valid_category(categorizer, category)
             THEN /\ last' = made @@ [raised |-> TRUE, error |-> "Invalid category"]
                  /\ UNCHANGED transaction
             ELSE IF transaction.category # <<>> /\ ~overwrite
             THEN /\ last' = made @@ [raised |-> TRUE,
                                      error |-> "Transaction already has category"]
                  /\ UNCHANGED transaction
             ELSE /\ transaction' = [transaction EXCEPT !.category = <<category>>]
                  /\ last' = made @@ [raised |-> FALSE]
    /\ ops' = ops + 1
    /\ UNCHANGED categorizer
    /\ UNCHANGED catFrame

\* categorizer.auto_categorize(transaction)
AutoCategorize ==
    /\ categorizer # NoObject
    /\ ops < MaxOps
    /\ LET found == auto_categorize(transaction.description) IN
       IF found # <<>>
       THEN /\ transaction' = [transaction EXCEPT !.category = found]
            /\ last' = [op |-> "auto_categorize", raised |-> FALSE,
                         returned |-> TRUE]
       ELSE /\ last' = [op |-> "auto_categorize", raised |-> FALSE,
                         returned |-> FALSE]
            /\ UNCHANGED transaction
    /\ ops' = ops + 1
    /\ UNCHANGED categorizer
    /\ UNCHANGED catFrame

NextCategorizer == CategorizeTransaction \/ AutoCategorize

InitCategorizer ==
    /\ categorizer \in {Categorizer(v) : v \in CategoryLists}
    /\ transaction \in {Transaction(150, d, Morning, c, <<>>).value :
                            d \in Descriptions, c \in GivenCategories}
    /\ manager = NoObject
    /\ logger = NoObject
    /\ goal_manager = NoObject
    /\ NoCallsYet
    /\ FilterIdle
    /\ TaxIdle
    /\ InrIdle
    /\ FyIdle

SpecCategorizer == InitCategorizer /\ [][NextCategorizer]_vars

----------------------------------------------------------------------------
(* filter.py: TransactionFilter *)

\* TransactionFilter(transactions): a copy of the list, and no filtered list
TransactionFilter(transactions) ==
    [transactions |-> transactions, _filtered |-> <<>>]

\* self._filtered if self._filtered is not None else self.transactions
Current(self) ==
    IF self._filtered # <<>> THEN self._filtered[1] ELSE self.transactions

\* _apply_filter(predicate), accepted being the transactions for which the
\* predicate is true
_apply_filter_FromAll(self, accepted) ==
    [self EXCEPT !._filtered =
        <<SelectSeq(self.transactions, LAMBDA txn : txn \in accepted)>>]
_apply_filter(self, accepted) ==
    [self EXCEPT !._filtered =
        <<SelectSeq(Current(self), LAMBDA txn : txn \in accepted)>>]

\* the order of str: by code point, a proper prefix first
CodeOrder == <<" ">> \o UpperCase \o LowerCase
Ord(ch) == CHOOSE i \in 1..Len(CodeOrder) : CodeOrder[i] = ch
StrLess(a, b) ==
    \E k \in 1..(Min(Len(a), Len(b)) + 1) :
        /\ \A j \in 1..(k - 1) : a[j] = b[j]
        /\ \/ k = Len(a) + 1 /\ k <= Len(b)
           \/ k <= Len(a) /\ k <= Len(b) /\ Ord(a[k]) < Ord(b[k])

\* t.category or ''
CategoryOrEmpty(t) == IF t.category = <<>> THEN <<>> ELSE t.category[1]

\* key(a) < key(b) for the key sort_by uses for the field
KeyLess(field, a, b) ==
    IF field = "date" THEN Before(a.date, b.date)
    ELSE IF field = "amount" THEN a.amount < b.amount
    ELSE IF field = "category" THEN StrLess(CategoryOrEmpty(a), CategoryOrEmpty(b))
    ELSE StrLess(Lower(a.description), Lower(b.description))

\* list.sort(key=..., reverse=reverse): stable, also when reversed
ListSort(list, field, reverse) ==
    LET Less(a, b) == IF reverse THEN KeyLess(field, b, a) ELSE KeyLess(field, a, b)
        Rank(i) == 1 + Cardinality({j \in 1..Len(list) :
                        \/ Less(list[j], list[i])
                        \/ ~Less(list[i], list[j]) /\ j < i})
    IN  [k \in 1..Len(list) |-> list[CHOOSE i \in 1..Len(list) : Rank(i) = k]]

valid_fields == {"date", "amount", "category", "description"}

\* get_results(), count() and total_amount()
get_results(self) == Current(self)
count(self) == Len(Current(self))
RECURSIVE SumAmounts(_)
SumAmounts(list) ==
    IF list = <<>> THEN 0 ELSE Head(list).amount + SumAmounts(Tail(list))
total_amount(self) == SumAmounts(get_results(self))

\* the transactions of the model and the lists a caller constructs a filter with
ChaiDesc == <<"C", "h", "a", "i">>
BusPass == <<"B", "u", "s", " ", "p", "a", "s", "s">>
Transport == <<"T", "r", "a", "n", "s", "p", "o", "r", "t">>
Food == <<"F", "o", "o", "d">>
T1 == Transaction(120, ChaiDesc, Morning, <<>>, 1).value
T2 == Transaction(150, AutoFare, Evening, <<Transport>>, 2).value
T3 == Transaction(40, MasalaChai, NextMorning, <<Food>>, 3).value
T4 == Transaction(120, BusPass, Morning, <<Transport>>, 4).value
GivenLists == {<<T2, T1, T3>>, <<T3, T4, T2, T1>>}

\* the calls of the model
SearchCalls ==
    { [op |-> "search_description", search_term |-> <<>>, case_sensitive |-> FALSE],
      [op |-> "search_description", search_term |-> <<"C", "H", "A", "I">>,
       case_sensitive |-> FALSE],
      [op |-> "search_description", search_term |-> ChaiDesc,
       case_sensitive |-> TRUE] }
CategoryCalls == {[op |-> "filter_by_category", category |-> Transport]}
CategoriesCalls ==
    {[op |-> "filter_by_categories", categories |-> c] :
        c \in {<<>>, <<Food, Transport>>}}
DateRangeCalls ==
    {[op |-> "filter_by_date_range", start_date |-> r[1], end_date |-> r[2]] :
        r \in { << <<Morning>>, <<Evening>> >>, << <<>>, <<Morning>> >>,
                << <<Evening>>, <<Morning>> >> }}
AmountRangeCalls ==
    {[op |-> "filter_by_amount_range", min_amount |-> r[1], max_amount |-> r[2]] :
        r \in { << <<100>>, <<>> >>, << <<>>, <<120>> >>,
                << <<200>>, <<100>> >>, << <<0 - 1>>, <<>> >> }}
SortCalls ==
    {[op |-> "sort_by", field |-> r[1], reverse |-> r[2]] :
        r \in { <<"date", FALSE>>, <<"amount", FALSE>>, <<"amount", TRUE>>,
                <<"category", FALSE>>, <<"description", TRUE>>, <<"id", FALSE>> }}
LimitCounts == {0 - 1, 1}

filterFrame == <<taxVars, inrVars, fyVars, manager, logger, goal_manager,
                 categorizer, transaction, issued, dup_used, given>>

\* the call raised: nothing changes
Refused(made, message) ==
    /\ last' = made @@ [raised |-> TRUE, error |-> message]
    /\ UNCHANGED <<filter, applied, rearranged>>

\* the call returned without applying a predicate
Skipped(made) ==
    /\ last' = made @@ [raised |-> FALSE]
    /\ UNCHANGED <<filter, applied, rearranged>>

\* the transactions the filter holds
Stored == {filter.transactions[k] : k \in 1..Len(filter.transactions)}

\* the call applied a predicate, true of the transactions in accepted
Filtered(made, accepted) ==
    /\ filter' = _apply_filter(filter, accepted)
    /\ last' = made @@ [raised |-> FALSE]
    /\ applied' = applied \cup {made}
    /\ UNCHANGED rearranged

\* filter.search_description(search_term, case_sensitive)
SearchDescription ==
    /\ filter # NoObject
    /\ ops < MaxOps
    /\ \E made \in SearchCalls :
         LET search_term == IF made.case_sensitive THEN made.search_term
                            ELSE Lower(made.search_term)
             predicate(txn) ==
                 LET desc == IF made.case_sensitive THEN txn.description
                             ELSE Lower(txn.description)
                 IN  Contains(desc, search_term)
         IN  IF made.search_term = <<>> THEN Skipped(made)
             ELSE Filtered(made, {txn \in Stored : predicate(txn)})
    /\ ops' = ops + 1
    /\ UNCHANGED filterFrame

\* filter.filter_by_category(category)
FilterByCategory ==
    /\ filter # NoObject
    /\ ops < MaxOps
    /\ \E made \in CategoryCalls :
         LET predicate(txn) == txn.category = <<made.category>>
         IN  Filtered(made, {txn \in Stored : predicate(txn)})
    /\ ops' = ops + 1
    /\ UNCHANGED filterFrame

\* filter.filter_by_categories(categories)
FilterByCategories ==
    /\ filter # NoObject
    /\ ops < MaxOps
    /\ \E made \in CategoriesCalls :
         LET predicate(txn) ==
                 /\ txn.category # <<>>
                 /\ \E k \in 1..Len(made.categories) :
                        made.categories[k] = txn.category[1]
         IN  IF made.categories = <<>> THEN Skipped(made)
             ELSE Filtered(made, {txn \in Stored : predicate(txn)})
    /\ ops' = ops + 1
    /\ UNCHANGED filterFrame

\* filter.filter_by_date_range(start_date, end_date)
FilterByDateRange ==
    /\ filter # NoObject
    /\ ops < MaxOps
    /\ \E made \in DateRangeCalls :
         LET start_date == made.start_date
             end_date == made.end_date
             predicate(txn) ==
                 /\ ~(start_date # <<>> /\ Before(txn.date, start_date[1]))
                 /\ ~(end_date # <<>> /\ Before(end_date[1], txn.date))
         IN  IF start_date # <<>> /\ end_date # <<>>
                    /\ Before(end_date[1], start_date[1])
             THEN Refused(made, "start_date cannot be after end_date")
             ELSE Filtered(made, {txn \in Stored : predicate(txn)})
    /\ ops' = ops + 1
    /\ UNCHANGED filterFrame

\* filter.filter_by_amount_range(min_amount, max_amount)
FilterByAmountRange ==
    /\ filter # NoObject
    /\ ops < MaxOps
    /\ \E made \in AmountRangeCalls :
         LET min_amount == made.min_amount
             max_amount == made.max_amount
             predicate(txn) ==
                 /\ ~(min_amount # <<>> /\ txn.amount < min_amount[1])
                 /\ ~(max_amount # <<>> /\ txn.amount > max_amount[1])
         IN  IF min_amount # <<>> /\ min_amount[1] < 0
             THEN Refused(made, "min_amount cannot be negative")
             ELSE IF max_amount # <<>> /\ max_amount[1] < 0
             THEN Refused(made, "max_amount cannot be negative")
             ELSE IF min_amount # <<>> /\ max_amount # <<>>
                        /\ min_amount[1] > max_amount[1]
             THEN Refused(made, "min_amount cannot be greater than max_amount")
             ELSE Filtered(made, {txn \in Stored : predicate(txn)})
    /\ ops' = ops + 1
    /\ UNCHANGED filterFrame

\* filter.filter_uncategorized()
FilterUncategorized ==
    /\ filter # NoObject
    /\ ops < MaxOps
    /\ LET predicate(txn) == txn.category = <<>>
       IN  Filtered([op |-> "filter_uncategorized"], {txn \in Stored : predicate(txn)})
    /\ ops' = ops + 1
    /\ UNCHANGED filterFrame

\* filter.filter_categorized()
FilterCategorized ==
    /\ filter # NoObject
    /\ ops < MaxOps
    /\ LET predicate(txn) == txn.category # <<>>
       IN  Filtered([op |-> "filter_categorized"], {txn \in Stored : predicate(txn)})
    /\ ops' = ops + 1
    /\ UNCHANGED filterFrame

\* filter.sort_by(field, reverse): sorts the filtered list, or the filter's
\* own list when there is no filtered list, in place
SortBy ==
    /\ filter # NoObject
    /\ ops < MaxOps
    /\ \E made \in SortCalls :
         IF made.field \notin valid_fields
         THEN Refused(made, "Invalid sort field")
         ELSE /\ filter' =
                   IF filter._filtered # <<>>
                   THEN [filter EXCEPT !._filtered =
                            <<ListSort(filter._filtered[1], made.field, made.reverse)>>]
                   ELSE [filter EXCEPT !.transactions =
                            ListSort(filter.transactions, made.field, made.reverse)]
              /\ last' = made @@ [raised |-> FALSE]
              /\ rearranged' = TRUE
              /\ UNCHANGED applied
    /\ ops' = ops + 1
    /\ UNCHANGED filterFrame

\* filter.limit(count)
Limit ==
    /\ filter # NoObject
    /\ ops < MaxOps
    /\ \E n \in LimitCounts :
         LET made == [op |-> "limit", count |-> n]
             target_list == Current(filter)
         IN  IF n < 0 THEN Refused(made, "count cannot be negative")
             ELSE /\ filter' = [filter EXCEPT !._filtered =
                                   <<SubSeq(target_list, 1, Min(n, Len(target_list)))>>]
                  /\ last' = made @@ [raised |-> FALSE]
                  /\ rearranged' = TRUE
                  /\ UNCHANGED applied
    /\ ops' = ops + 1
    /\ UNCHANGED filterFrame

\* filter.reset()
Reset ==
    /\ filter # NoObject
    /\ ops < MaxOps
    /\ filter' = [filter EXCEPT !._filtered = <<>>]
    /\ last' = [op |-> "reset", raised |-> FALSE]
    /\ rearranged' = TRUE
    /\ UNCHANGED applied
    /\ ops' = ops + 1
    /\ UNCHANGED filterFrame

NextFilter ==
    \/ SearchDescription \/ FilterByCategory \/ FilterByCategories
    \/ FilterByDateRange \/ FilterByAmountRange
    \/ FilterUncategorized \/ FilterCategorized
    \/ SortBy \/ Limit \/ Reset

InitFilter ==
    /\ given \in GivenLists
    /\ filter = TransactionFilter(given)
    /\ applied = {}
    /\ rearranged = FALSE
    /\ manager = NoObject
    /\ logger = NoObject
    /\ goal_manager = NoObject
    /\ categorizer = NoObject
    /\ transaction = NoObject
    /\ NoCallsYet
    /\ TaxIdle
    /\ InrIdle
    /\ FyIdle

SpecFilter == InitFilter /\ [][NextFilter]_vars

----------------------------------------------------------------------------
(* Claims about recurring expenses, under SpecRecurring *)

\* months since year 0, so that December + 1 is January of the next year
MonthIndex(d) == d.year * 12 + d.month - 1

\* the day number of a date in the proleptic Gregorian calendar
DaysBeforeMonth == <<0, 31, 59, 90, 120, 151, 181, 212, 243, 273, 304, 334>>
Ordinal(d) ==
    LET y == d.year - 1 IN
    365 * y + (y \div 4) - (y \div 100) + (y \div 400)
        + DaysBeforeMonth[d.month]
        + (IF d.month > 2 /\ IsLeap(d.year) THEN 1 ELSE 0)
        + d.day

SameTime(a, b) == a.hour = b.hour /\ a.minute = b.minute

\* what C16 says of one expense whose due date is cur and whose computed
\* next due date is r
ClampedNext(frequency, cur, r) ==
    /\ r.ok
    /\ frequency = Monthly =>
        /\ MonthIndex(r.value) = MonthIndex(cur) + 1
        /\ r.value.day = Min(cur.day, DaysInMonth(r.value.year, r.value.month))
        /\ SameTime(r.value, cur)
        /\ (cur.month = 1 /\ cur.day = 31) =>
               /\ r.value.month = 2
               /\ r.value.day = IF IsLeap(cur.year) THEN 29 ELSE 28
        /\ (cur.month = 3 /\ cur.day = 31) =>
               r.value.month = 4 /\ r.value.day = 30
        /\ (cur.month = 12 /\ cur.day = 31) =>
               /\ r.value.year = cur.year + 1
               /\ r.value.month = 1 /\ r.value.day = 31
    /\ frequency = Yearly =>
        /\ r.value.year = cur.year + 1
        /\ r.value.month = cur.month
        /\ r.value.day = Min(cur.day, DaysInMonth(r.value.year, r.value.month))
        /\ SameTime(r.value, cur)
        /\ (cur.year = 2024 /\ cur.month = 2 /\ cur.day = 29) =>
               r.value.year = 2025 /\ r.value.month = 2 /\ r.value.day = 28

\* C16: for every recurring expense the manager holds, at every due date it
\* reaches, calculate_next_due_date returns a date and does not fail; for a
\* monthly expense the date lies in the next calendar month (January of the
\* next year after December), for a yearly one in the same month of the next
\* year, its day is the current day cut down to the length of that month,
\* and hour and minute are the current ones.
C16_DayClamping ==
    manager # NoObject =>
        \A i \in 1..Len(manager.recurring_expenses) :
            LET e == manager.recurring_expenses[i] IN
            ClampedNext(e.frequency, e.next_due_date, calculate_next_due_date(e))

\* mark_as_paid has moved a yearly expense from 29 Feb 2024 to 28 Feb 2025
C16_Witness ==
    /\ last.op = "mark_as_paid" /\ ~last.raised
    /\ \E i \in 1..Len(manager.recurring_expenses) :
         LET e == manager.recurring_expenses[i] IN
         /\ e.id = last.id
         /\ e.frequency = Yearly
         /\ e.next_due_date = Datetime(2025, 2, 28, 9, 30, 0)

\* a call has just been made on the manager
RecStep == manager # NoObject /\ ops' # ops

Known(entries, id) == \E i \in 1..Len(entries) : entries[i].id = id

\* the new due date of an expense that mark_as_paid has advanced
Advanced(frequency, old, new) ==
    /\ Before(old, new)
    /\ frequency = Daily =>
           Ordinal(new) = Ordinal(old) + 1 /\ SameTime(old, new)
    /\ frequency = Weekly =>
           Ordinal(new) = Ordinal(old) + 7 /\ SameTime(old, new)
    /\ frequency = Monthly => MonthIndex(new) = MonthIndex(old) + 1
    /\ frequency = Yearly =>
           new.year = old.year + 1 /\ new.month = old.month

\* C17: mark_as_paid(id) on an existing id does not raise, moves that
\* expense's next_due_date to a strictly later date (1 day, 7 days, one
\* month or one year on) and changes nothing else: not its other fields,
\* not the other expenses, not the order of the list, not the id counter.
\* mark_as_paid, generate_transaction and remove_recurring_expense on an
\* unknown id raise and leave the manager as it was.
C17_MarkAsPaidFrames ==
    [][ RecStep =>
        LET old == manager.recurring_expenses
            new == manager'.recurring_expenses
        IN
        /\ (last'.op = "mark_as_paid" /\ Known(old, last'.id)) =>
            /\ ~last'.raised
            /\ manager'._next_id = manager._next_id
            /\ Len(new) = Len(old)
            /\ \A j \in 1..Len(old) :
                 IF old[j].id = last'.id
                 THEN /\ Advanced(old[j].frequency, old[j].next_due_date,
                                  new[j].next_due_date)
                      /\ new[j] = [old[j] EXCEPT
                                      !.next_due_date = new[j].next_due_date]
                 ELSE new[j] = old[j]
        /\ ( /\ last'.op \in {"mark_as_paid", "generate_transaction",
                              "remove_recurring_expense"}
             /\ ~Known(old, last'.id) ) =>
            /\ last'.raised
            /\ manager' = manager
      ]_vars

\* the second of two expenses, a weekly one, has been paid: 31 Dec -> 7 Jan
C17_Witness ==
    /\ last.op = "mark_as_paid" /\ ~last.raised /\ last.id = 2
    /\ Len(manager.recurring_expenses) = 2
    /\ manager.recurring_expenses[2].frequency = Weekly
    /\ manager.recurring_expenses[2].next_due_date = Datetime(2025, 1, 7, 23, 59, 0)

----------------------------------------------------------------------------
(* Claims about the expense logger, under SpecLogger *)

LogStep == logger # NoObject /\ ops' # ops

\* some logged transaction has the amount, the description and the calendar
\* day of the call
Duplicate(c, logged) ==
    \E k \in 1..Len(logged) :
        /\ logged[k].amount = c.amount
        /\ logged[k].description = c.description
        /\ logged[k].date.year = c.date.year
        /\ logged[k].date.month = c.date.month
        /\ logged[k].date.day = c.date.day

\* C19: a log_expense call with a negative amount raises; one with
\* allow_duplicates=False and a non-negative amount raises exactly when a
\* logged transaction has the same amount, description and calendar day,
\* whatever its category and time of day; a call that raises leaves the
\* transaction list and the next id as they were; and as long as no call
\* passed allow_duplicates=True no two logged transactions match.
C19_DuplicatesRejected ==
    /\ [][ LogStep =>
           /\ last'.amount < 0 => last'.raised
           /\ (last'.amount >= 0 /\ ~last'.allow_duplicates) =>
                  (last'.raised <=> Duplicate(last', logger.transactions))
           /\ last'.raised => logger' = logger
         ]_vars
    /\ [](~dup_used =>
             \A i, j \in 1..Len(logger.transactions) :
                 i # j => ~Duplicate(logger.transactions[i],
                                     <<logger.transactions[j]>>))

\* the same chai at another time of the same day has just been refused
C19_Witness ==
    /\ last.op = "log_expense" /\ last.raised /\ ~last.allow_duplicates
    /\ last.amount = 120 /\ last.date = Evening
    /\ Len(logger.transactions) = 1
    /\ logger.transactions[1].date = Morning
    /\ logger._next_id = 2

----------------------------------------------------------------------------
(* Claims about ids, under SpecManagers *)

\* the entries and the id counter of the object in use
Entries ==
    IF manager # NoObject THEN manager.recurring_expenses
    ELSE IF logger # NoObject THEN logger.transactions
    ELSE IF goal_manager # NoObject THEN goal_manager.goals
    ELSE <<>>
NextId ==
    IF manager # NoObject THEN manager._next_id
    ELSE IF logger # NoObject THEN logger._next_id
    ELSE IF goal_manager # NoObject THEN goal_manager._next_id
    ELSE 1

\* C18: in each of the three objects, whatever calls were made, the stored
\* entries have pairwise distinct ids; the ids given to created entries are
\* 1, 2, 3, ... in the order of creation, so none is given twice, also not
\* one whose entry was removed or deleted; every stored id is one of them;
\* and the id counter is greater than every id given so far.
C18_UniqueIncreasingIds ==
    /\ \A i, j \in 1..Len(Entries) : i # j => Entries[i].id # Entries[j].id
    /\ \A k \in 1..Len(issued) : issued[k] = k
    /\ \A i \in 1..Len(Entries) : \E k \in 1..Len(issued) : Entries[i].id = issued[k]
    /\ \A k \in 1..Len(issued) : issued[k] < NextId

\* ids 1, 2, 3 were given, the entry with id 2 was removed before the third
\* was created
C18_Witness ==
    /\ manager # NoObject
    /\ issued = <<1, 2, 3>>
    /\ Len(manager.recurring_expenses) = 2
    /\ manager.recurring_expenses[1].id = 1
    /\ manager.recurring_expenses[2].id = 3

----------------------------------------------------------------------------
(* Claims about the categorizer, under SpecCategorizer *)

CatStep == categorizer # NoObject /\ ops' # ops

InList(list, x) == \E k \in 1..Len(list) : list[k] = x

\* C20: categorize_transaction raises and leaves the category as it was
\* when the requested category is not in valid_categories, or when the
\* transaction has a category and overwrite is False; in every other case
\* it does not raise and the category becomes the requested one.
C20_OverwriteProtection ==
    [][ (CatStep /\ last'.op = "categorize_transaction") =>
        LET refused == \/ ~InList(categorizer.valid_categories, last'.category)
                       \/ (transaction.category # <<>> /\ ~last'.overwrite)
        IN  IF refused
            THEN last'.raised /\ transaction' = transaction
            ELSE /\ ~last'.raised
                 /\ transaction'.category = <<last'.category>>
      ]_vars

\* "Shopping" without overwrite was refused for a "Transport" transaction
C20_Witness ==
    /\ last.op = "categorize_transaction" /\ last.raised
    /\ last.category = "Shopping" /\ ~last.overwrite
    /\ transaction.category = <<"Transport">>

----------------------------------------------------------------------------
(* Claims about savings goals, under SpecGoals *)

GoalStep == goal_manager # NoObject /\ ops' # ops

\* C23: add_contribution(goal_id, amount) raises and changes nothing whenever
\* amount <= 0, whatever the goal id; with a positive amount it returns False
\* and changes nothing when no goal has the id, and otherwise returns True
\* after adding exactly amount to that goal's current_saved, every other
\* goal, the order of the goals and the id counter staying as they were.
C23_ContributionOutcome ==
    [][ (GoalStep /\ last'.op = "add_contribution") =>
        LET old == goal_manager.goals
            new == goal_manager'.goals
        IN
        /\ last'.amount <= 0 =>
               last'.raised /\ goal_manager' = goal_manager
        /\ (last'.amount > 0 /\ ~Known(old, last'.id)) =>
               /\ ~last'.raised /\ last'.returned = FALSE
               /\ goal_manager' = goal_manager
        /\ (last'.amount > 0 /\ Known(old, last'.id)) =>
               /\ ~last'.raised /\ last'.returned = TRUE
               /\ goal_manager'._next_id = goal_manager._next_id
               /\ Len(new) = Len(old)
               /\ \A j \in 1..Len(old) :
                      IF old[j].id = last'.id
                      THEN new[j] = [old[j] EXCEPT !.current_saved =
                                        old[j].current_saved + last'.amount]
                      ELSE new[j] = old[j]
      ]_vars

----------------------------------------------------------------------------
(* Further claims about the tax engine, under SpecTax *)

SlabsOf(regime) ==
    IF regime = "new_regime" THEN NEW_REGIME_SLABS ELSE OLD_REGIME_SLABS

\* the sum over the first n brackets of max(0, min(x, upper) - lower) * rate / 100
RECURSIVE BracketSum(_, _, _)
BracketSum(x, slabs, n) ==
    IF n = 0 THEN 0
    ELSE BracketSum(x, slabs, n - 1)
             + Max(0, Min(x, slabs[n][2]) - slabs[n][1]) * slabs[n][3]
                   * (UnitsPerRupee \div 100)

\* the highest rate of a table, on one rupee
TopRate(slabs) == Rupees(slabs[Len(slabs)][3]) \div 100

\* C24: the slab tax of a taxable income x is the sum over all brackets of
\* max(0, min(x, upper) - lower) * rate / 100; it is 0 up to the end of the
\* nil bracket (300000 new, 250000 old); at the lower bound of a bracket
\* that bracket adds nothing; and around x and around every bracket bound
\* the tax never falls when the income rises by a rupee and never rises by
\* more than the top rate on that rupee (no jump).
C24_BracketApplication ==
    CalcOk =>
        LET slabs == SlabsOf(RegimeOf(call))
            x == result.taxable_income
            f(y) == _calculate_tax_by_slabs(y, slabs)
            Smooth(y) == f(y) <= f(y + 1) /\ f(y + 1) - f(y) <= TopRate(slabs)
        IN
        /\ result.tax_before_rebate = BracketSum(x, slabs, Len(slabs))
        /\ x <= slabs[1][2] => result.tax_before_rebate = 0
        /\ slabs[1][2] = (IF RegimeOf(call) = "new_regime" THEN 300000 ELSE 250000)
        /\ Smooth(x)
        /\ \A k \in 1..Len(slabs) :
             LET b == slabs[k][1] IN
             /\ f(b) = BracketSum(b, slabs, k - 1)
             /\ Smooth(b)
             /\ b > 0 => Smooth(b - 1)

\* taxable income 700000 in the new regime: 5 % of 400000
C24_Witness ==
    /\ NewOk
    /\ result.taxable_income = 700000
    /\ result.tax_before_rebate = Rupees(20000)

\* the surcharge rate in percent and the lower threshold of the income's tier
TierRate(income) ==
    IF income <= 5000000 THEN 0
    ELSE IF income <= 10000000 THEN 10
    ELSE IF income <= 20000000 THEN 15
    ELSE 25
TierThreshold(income) ==
    IF income <= 10000000 THEN 5000000
    ELSE IF income <= 20000000 THEN 10000000
    ELSE 20000000

\* C25: with S = r * tax_before_rebate, r the rate of the income's tier and
\* T the tier's lower threshold, marginal_relief is
\* min(S, max(0, (tax_before_rebate + S) - (income - T)
\*                   - tax_before_rebate * T / income)), 0 when S = 0,
\* surcharge is S - marginal_relief, so 0 <= marginal_relief <= S and
\* surcharge >= 0, and final_tax = max(0, tax_before_rebate - rebate_87a
\* + surcharge), in both regimes.
C25_SurchargeAndRelief ==
    CalcOk =>
        LET income == call.income
            tbr == result.tax_before_rebate
            T == TierThreshold(income)
            S == PercentOf(tbr, TierRate(income))
            relief == IF S = 0 THEN 0
                      ELSE Min(S, Max(0, (tbr + S) - Rupees(income - T)
                                             - MulDiv(tbr, T, income)))
        IN
        /\ result.marginal_relief = relief
        /\ result.surcharge = S - relief
        /\ 0 <= result.marginal_relief /\ result.marginal_relief <= S
        /\ result.surcharge >= 0
        /\ result.final_tax =
               Max(0, tbr - result.rebate_87a + result.surcharge)

\* income 5100000, new regime: S = 120500 and a relief strictly between 0 and S
C25_Witness ==
    /\ NewOk
    /\ call.income = 5100000
    /\ result.marginal_relief > 0
    /\ result.surcharge > 0
    /\ result.surcharge + result.marginal_relief = Rupees(120500)

\* the same call with months_worked left out
WithoutMonths ==
    calculate_tax(call.income, RegimeOf(call), call.deduction_80c,
                  call.deduction_80d, <<>>)

\* C26: months_worked has no effect on the computation.  A call with
\* months_worked = m in 1..12 returns the same value under every key as the
\* same call without months_worked, plus the one key months_worked = m; the
\* key is absent when months_worked is omitted.
C26_MonthsWorkedEchoed ==
    CalcOk =>
        IF call.months_worked = <<>>
        THEN "months_worked" \notin DOMAIN result
        ELSE /\ call.months_worked[1] \in 1..12
             /\ WithoutMonths.ok
             /\ DOMAIN result = DOMAIN WithoutMonths \cup {"months_worked"}
             /\ "months_worked" \notin DOMAIN WithoutMonths
             /\ result.months_worked = call.months_worked[1]
             /\ \A k \in DOMAIN WithoutMonths : result[k] = WithoutMonths[k]

C26_Witness ==
    /\ OldOk
    /\ call.income = 1050000
    /\ call.months_worked = <<1>>
    /\ result.months_worked = 1
    /\ result.final_tax > 0
    /\ result.final_tax = WithoutMonths.final_tax

\* C27: deductions never raise taxable income.  For every call the old
\* regime accepts, whatever numbers the two deductions are, taxable_income
\* <= max(0, income - 50000), the reported deduction_80c lies in 0..150000
\* and deduction_80d in 0..25000, and final_tax is not above the old-regime
\* final_tax of the same income with zero deductions.
C27_DeductionsNeverRaise ==
    OldOk =>
        /\ result.taxable_income <= Max(0, call.income - 50000)
        /\ result.deduction_80c \in 0..150000
        /\ result.deduction_80d \in 0..25000
        /\ result.final_tax <=
               calculate_tax(call.income, "old_regime", 0, 0, <<>>).final_tax

----------------------------------------------------------------------------
(* Further claims about the formatter, under SpecInr *)

\* C28: formatter output is accepted by the validator.  For every amount a,
\* negative amounts included, validate_inr_format(format_inr(a)) is true.
C28_FormatterOutputValid ==
    (Formatted /\ valid # <<>>) => valid[1]

----------------------------------------------------------------------------
(* Further claims about recurring expenses, under SpecRecurring *)

\* how many mark_as_paid calls ahead the due dates of an expense are followed
Horizon == 12

\* the due dates of expense e along n successive mark_as_paid calls, its
\* present due date first
RECURSIVE DueDates(_, _)
DueDates(e, n) ==
    IF n = 0 THEN <<e.next_due_date>>
    ELSE LET next == calculate_next_due_date(e) IN
         IF ~next.ok THEN <<e.next_due_date>>
         ELSE <<e.next_due_date>>
                  \o DueDates([e EXCEPT !.next_due_date = next.value], n - 1)

\* the month advances by one per call and the day never increases
DriftsDown(s) ==
    /\ Len(s) = Horizon + 1
    /\ \A k \in 1..Horizon :
        /\ MonthIndex(s[k + 1]) = MonthIndex(s[k]) + 1
        /\ s[k + 1].day <= s[k].day

\* once a call has lowered the day, every later due date has the lowered day
KeepsClampedDay(s) ==
    \A j \in 1..(Len(s) - 1) :
        s[j + 1].day < s[j].day =>
            \A m \in (j + 1)..Len(s) : s[m].day = s[j + 1].day

\* the day is kept whenever the next month has it, so a day every month has
\* is kept for good, and no due date has a day above an earlier one
KeepsDayWhenPossible(s) ==
    /\ \A k \in 1..(Len(s) - 1) :
        DayExists(s[k + 1].year, s[k + 1].month, s[k].day) =>
            s[k + 1].day = s[k].day
    /\ \A j \in 1..Len(s) :
        /\ s[j].day <= 28 => \A m \in j..Len(s) : s[m].day = s[j].day
        /\ \A m \in j..Len(s) : s[m].day <= s[j].day

\* C29 as stated: along any sequence of mark_as_paid calls on a monthly
\* expense the day of next_due_date never increases, the month advances by
\* exactly one per call, and once the day has been clamped by a shorter month
\* every later due date keeps the clamped day.
C29_ClampedDayKept ==
    manager # NoObject =>
        \A i \in 1..Len(manager.recurring_expenses) :
            LET e == manager.recurring_expenses[i]
                s == DueDates(e, Horizon)
            IN  e.frequency = Monthly => DriftsDown(s) /\ KeepsClampedDay(s)

\* C29, amended: along any sequence of mark_as_paid calls on a monthly
\* expense the month advances by exactly one per call and the day of
\* next_due_date never increases: it is kept whenever the next month has
\* that day, so a day of 28 or less is kept for good and a day an earlier
\* call had is never exceeded; a day clamped to 30 or 29 is clamped again by
\* a later February.
C29_DayOnlyDriftsDown ==
    manager # NoObject =>
        \A i \in 1..Len(manager.recurring_expenses) :
            LET e == manager.recurring_expenses[i]
                s == DueDates(e, Horizon)
            IN  e.frequency = Monthly => DriftsDown(s) /\ KeepsDayWhenPossible(s)

\* three mark_as_paid calls have taken 31 Dec 2024 to 31 Jan, 28 Feb and
\* 28 Mar 2025
C29_Witness ==
    /\ last.op = "mark_as_paid" /\ ~last.raised
    /\ ops = 4
    /\ \E i \in 1..Len(manager.recurring_expenses) :
         LET e == manager.recurring_expenses[i] IN
         /\ e.id = last.id
         /\ e.frequency = Monthly
         /\ e.next_due_date = Datetime(2025, 3, 28, 23, 59, 0)

----------------------------------------------------------------------------
(* Further claims about the categorizer, under SpecCategorizer *)

\* C30: a Categorizer only assigns its own valid categories.  Whatever
\* categorize_transaction and auto_categorize calls are made through one
\* Categorizer, every category it writes to the transaction is a member of
\* its valid_categories; auto_categorize returns True iff it assigned a
\* category and otherwise leaves the transaction as it was.
C30_OnlyValidCategories ==
    [][ CatStep =>
        LET wrote == IF last'.op = "auto_categorize" THEN last'.returned
                     ELSE ~last'.raised
        IN  /\ wrote =>
                /\ transaction'.category # <<>>
                /\ InList(categorizer.valid_categories, transaction'.category[1])
            /\ ~wrote => transaction' = transaction
            /\ last'.op = "auto_categorize" =>
                (last'.returned <=>
                    auto_categorize(transaction.description) # <<>>)
      ]_vars

----------------------------------------------------------------------------
(* Claims about the transaction filter, under SpecFilter *)

\* transaction t satisfies the predicate of the filter call c
Satisfies(t, c) ==
    IF c.op = "search_description" THEN
        IF c.case_sensitive THEN Contains(t.description, c.search_term)
        ELSE Contains(Lower(t.description), Lower(c.search_term))
    ELSE IF c.op = "filter_by_category" THEN t.category = <<c.category>>
    ELSE IF c.op = "filter_by_categories" THEN
        t.category \in {<<c.categories[k]>> : k \in 1..Len(c.categories)}
    ELSE IF c.op = "filter_by_date_range" THEN
        /\ c.start_date # <<>> => ~Before(t.date, c.start_date[1])
        /\ c.end_date # <<>> => ~Before(c.end_date[1], t.date)
    ELSE IF c.op = "filter_by_amount_range" THEN
        /\ c.min_amount # <<>> => t.amount >= c.min_amount[1]
        /\ c.max_amount # <<>> => t.amount <= c.max_amount[1]
    ELSE IF c.op = "filter_uncategorized" THEN t.category = <<>>
    ELSE t.category # <<>>

\* the positions of the caller's list whose transaction satisfies every
\* applied predicate, and the sub-list they make, in the caller's order
Passing == {i \in 1..Len(given) : \A c \in applied : Satisfies(given[i], c)}
RECURSIVE SubList(_, _)
SubList(list, from) ==
    IF from > Len(list) THEN <<>>
    ELSE IF from \in Passing THEN <<list[from]>> \o SubList(list, from + 1)
    ELSE SubList(list, from + 1)
RECURSIVE AmountSum(_, _)
AmountSum(list, positions) ==
    IF positions = {} THEN 0
    ELSE LET i == CHOOSE i \in positions : TRUE
         IN  list[i].amount + AmountSum(list, positions \ {i})

\* C21: chained filters use AND logic.  After any sequence of filter calls,
\* without sort_by, limit or reset, get_results() is exactly the sub-list of
\* the constructor's transactions that satisfy every applied predicate, in
\* their original order; so the result depends only on which predicates were
\* applied, not on their order or on how often each was applied; count() and
\* total_amount() are the length and the amount sum of get_results().
C21_ChainedFiltersAnd ==
    (filter # NoObject /\ ~rearranged) =>
        /\ get_results(filter) = SubList(given, 1)
        /\ count(filter) = Cardinality(Passing)
        /\ count(filter) = Len(get_results(filter))
        /\ total_amount(filter) = AmountSum(given, Passing)

\* filter_by_category("Transport") and filter_by_amount_range(None, 120), in
\* either order, have left the one transaction that satisfies both
C21_Witness ==
    /\ given = <<T3, T4, T2, T1>>
    /\ ~rearranged
    /\ Cardinality(applied) = 2
    /\ \E c \in applied : c.op = "filter_by_category"
    /\ \E c \in applied : c.op = "filter_by_amount_range"
    /\ get_results(filter) = <<T4>>
    /\ total_amount(filter) = 120

\* C22: reset starts fresh.  After reset(), whatever filter, sort_by and
\* limit calls preceded it, get_results() is exactly the list the filter was
\* constructed with, same elements in the same order, and count() is its
\* length; the caller's list is one of the lists it constructed a filter
\* with, as it was.
C22_ResetStartsFresh ==
    filter # NoObject =>
        /\ given \in GivenLists
        /\ last.op = "reset" =>
            /\ get_results(filter) = given
            /\ count(filter) = Len(given)

====
